---- MODULE Spec2Model ----
(***************************************************************************)
(* Model of autoPyTorch/ensemble/ensemble_builder.py:                      *)
(*   EnsembleBuilderManager (the Coordinator, build_ensemble),             *)
(*   fit_and_return_ensemble / EnsembleBuilder.run (the Driver's retry     *)
(*   loop around the resource-limited call), and EnsembleBuilder.main with *)
(*   compute_loss_per_model, get_n_best_preds, get_test_preds,             *)
(*   fit_ensemble and _delete_excess_models, over a small file system.     *)
(*                                                                         *)
(* An artifact is identified by its num_run (one seed, one budget), so a   *)
(* path is a number in 1..MaxRuns and the baseline is path 1.  A decoded   *)
(* prediction array is identified with the content number of its file,     *)
(* and its loss is that number.  Floats are kept exact: a fractional       *)
(* ensemble_nbest is a number of quarters, a performance range threshold   *)
(* a number of halves, disk costs are whole megabytes.                     *)
(***************************************************************************)
EXTENDS Integers, Sequences, FiniteSets, TLC

\* ------------------------------------------------------------- bounds
MaxRuns == 3        \* artifacts 1..MaxRuns can be written by the optimizer
MaxLoss == 2        \* finite losses are 1..MaxLoss
MaxCost == 2        \* disk cost of one artifact directory, in MB
MaxClock == 2       \* time.time() is read as 0..MaxClock ticks of TickSeconds
MaxIteration == 3   \* cap on the Coordinator's iteration counter

\* ------------------------------------------------- values and constants
None == -1          \* Python's None where a number is expected
Inf == 99           \* np.inf (larger than every finite loss)
Corrupt == 0        \* content of a prediction file that cannot be decoded
time_buffer == 5    \* default of run(time_buffer=5)
TickSeconds == 6    \* seconds between two values of the clock
FloatDen == 4       \* a fractional ensemble_nbest is v / FloatDen
ThrDen == 2         \* performance_range_threshold is v / ThrDen

UNLOADED == 0       \* "loaded": 0 - not loaded
LOADED == 1         \*           1 - loaded and in memory
DROPPED == 2        \*           2 - loaded but dropped again
DELETED == 3        \*           3 - deleted from disk

Paths == 1..MaxRuns

IntN(n) == [int |-> TRUE, v |-> n]
FloatN(q) == [int |-> FALSE, v |-> q]

Max(a, b) == IF a >= b THEN a ELSE b
Min(a, b) == IF a <= b THEN a ELSE b

RECURSIVE SumSeq(_)
SumSeq(s) == IF s = <<>> THEN 0 ELSE Head(s) + SumSeq(Tail(s))

SeqToSet(s) == {s[i] : i \in 1..Len(s)}

Prefix(s, n) == SubSeq(s, 1, Min(Max(n, 0), Len(s)))

\* ------------------------------------------------------------- state
VARIABLES
    clock,      \* last value read from time.time(), in ticks
    world,      \* what the optimizer may write: contents, costs, test files
    cfg,        \* constructor arguments of the EnsembleBuilderManager
    mgr,        \* EnsembleBuilderManager: iteration, history, ensemble_nbest
    futures,    \* self.futures: the dask futures the manager holds
    outcome,    \* how the last build_ensemble call ended: "none", "returned", "raised"
    wpc,        \* worker position: "idle", "loop" (top of run's while), "main"
    cur,        \* index in futures of the job the worker executes (0: none)
    eb,         \* the EnsembleBuilder object in the worker process
    run_locals, \* time_left and process_start_time of EnsembleBuilder.run
    mp,         \* the copy of it in pynisher's subprocess, executing main
    files,      \* runs directory: per path the prediction files of that run
    targets,    \* TRUE when the ensemble targets file exists
    loss_pkl,   \* ensemble_read_losses.pkl
    preds_pkl   \* ensemble_read_preds.pkl

vars == <<clock, world, cfg, mgr, futures, outcome, wpc, cur, eb, run_locals, mp, files, targets,
          loss_pkl, preds_pkl>>

fsvars == <<files, targets, loss_pkl, preds_pkl>>
mgrvars == <<world, cfg, mgr, outcome>>

\* was_candidate records that main() once put the path into
\* _has_been_candidate (lines 821-823), in_saved that the model of the path
\* is a member of the ensemble backend.save_ensemble stored last; no code
\* reads them
NoFile == [exists |-> FALSE, mtime |-> 0, content |-> 0, cost |-> 0, test |-> FALSE,
           was_candidate |-> FALSE, in_saved |-> FALSE]

\* a run directory that was removed: its num_run is not used again
Tombstone == [NoFile EXCEPT !.mtime = 1]

\* a run directory that os.rename moved to its '.old' name and that
\* shutil.rmtree then failed to remove: nothing is left at the path
Leftover == [NoFile EXCEPT !.mtime = 2]

EmptyDict == [k \in {} |-> 0]

NoHash == << <<>> >>   \* self.last_hash = None

\* self.read_losses[y_ens_fn] = {...} of compute_loss_per_model
NewLossRecord(k) ==
    [ens_loss |-> Inf, mtime_ens |-> 0, mtime_test |-> 0, num_run |-> k,
     disc_space_cost_mb |-> None, loaded |-> UNLOADED]

NoArray == <<>>      \* None where a decoded array is expected

\* np.load of the prediction file of path k holding content c
ArrayOf(k, c) == <<k, c>>

NewPredRecord == [ens |-> NoArray, test |-> NoArray]

\* --------------------------------------------------------- pure helpers
\* tuple comparison of two-element sort keys
KeyLess(p, q) == p[1] < q[1] \/ (p[1] = q[1] /\ p[2] < q[2])

\* sorted(S, key=...) for keys that differ on different elements
RECURSIVE SortByKey(_, _)
SortByKey(S, key) ==
    IF S = {} THEN <<>>
    ELSE LET k == CHOOSE x \in S : \A y \in S \ {x} : KeyLess(key[x], key[y])
         IN  <<k>> \o SortByKey(S \ {k}, key)

\* key=lambda x: (x[1], x[2]) of _get_list_of_sorted_preds
SortKey(rl) == [k \in DOMAIN rl |-> <<rl[k].ens_loss, rl[k].num_run>>]

\* _get_list_of_sorted_preds: the keys of read_losses by (ens_loss, num_run)
_get_list_of_sorted_preds(rl) == SortByKey(DOMAIN rl, SortKey(rl))

\* sorted(to_read, key=lambda x: x[3]): the files found, by num_run
SortedByRun(S) == SortByKey(S, [k \in S |-> <<k, 0>>])

\* ------------------------------------------- compute_loss_per_model
\* the for loop of compute_loss_per_model over the files in num_run order;
\* st = [rl |-> read_losses, rp |-> read_preds, n |-> n_read_files]
ReadAtMostReached(read_at_most, n) == read_at_most # 0 /\ n >= read_at_most

ReadOne(f, k, st) ==
    LET rl1 == IF k \in DOMAIN st.rl THEN st.rl ELSE st.rl @@ (k :> NewLossRecord(k))
        rp1 == IF k \in DOMAIN st.rp THEN st.rp ELSE st.rp @@ (k :> NewPredRecord)
    IN  IF rl1[k].mtime_ens = f[k].mtime
        THEN [rl |-> rl1, rp |-> rp1, n |-> st.n]
        ELSE IF f[k].content = Corrupt
        THEN [rl |-> [rl1 EXCEPT ![k].ens_loss = Inf], rp |-> rp1, n |-> st.n]
        ELSE [rl |-> [rl1 EXCEPT ![k].ens_loss = f[k].content,
                                 ![k].mtime_ens = f[k].mtime,
                                 ![k].loaded = DROPPED,
                                 ![k].disc_space_cost_mb = f[k].cost],
              rp |-> rp1, n |-> st.n + 1]

\* variant of ReadLoop that leaves the loop at the first file it cannot decode
RECURSIVE ReadLoop_StopsOnFailure(_, _, _, _, _)
ReadLoop_StopsOnFailure(f, order, i, read_at_most, st) ==
    IF i > Len(order) \/ ReadAtMostReached(read_at_most, st.n) THEN st
    ELSE IF f[order[i]].content = Corrupt THEN ReadOne(f, order[i], st)
    ELSE ReadLoop_StopsOnFailure(f, order, i + 1, read_at_most, ReadOne(f, order[i], st))

RECURSIVE ReadLoop(_, _, _, _, _)
ReadLoop(f, order, i, read_at_most, st) ==
    IF i > Len(order) \/ ReadAtMostReached(read_at_most, st.n) THEN st
    ELSE ReadLoop(f, order, i + 1, read_at_most, ReadOne(f, order[i], st))

\* compute_loss_per_model on builder b with the files f; ok is its return value
compute_loss_per_model(b, f, tgt) ==
    LET found == {k \in Paths : f[k].exists}
    IN  IF ~tgt THEN [ok |-> FALSE, b |-> b]
        ELSE IF found = {}
        THEN [ok |-> FALSE, b |-> [b EXCEPT !.y_ens_files = {}, !.y_true_ensemble = TRUE]]
        ELSE LET st == ReadLoop(f, SortedByRun(found), 1, b.read_at_most,
                                [rl |-> b.read_losses, rp |-> b.read_preds, n |-> 0])
             IN  [ok |-> TRUE,
                  b |-> [b EXCEPT !.y_ens_files = found, !.y_true_ensemble = TRUE,
                                  !.read_losses = st.rl, !.read_preds = st.rp]]

\* ------------------------------------------------- get_n_best_preds
\* dummy_losses = list(filter(lambda x: x[2] == 1, sorted_keys))
dummy_losses(rl, sorted_keys) ==
    LET IsDummy(k) == rl[k].num_run = 1 IN SelectSeq(sorted_keys, IsDummy)

\* lines 1050-1071: drop what is not better than the dummy, and the dummy
BaselineFilter(rl, sorted_keys) ==
    LET dl == dummy_losses(rl, sorted_keys)
    IN  IF Len(dl) = 0 THEN sorted_keys
        ELSE LET dummy_loss == rl[dl[1]].ens_loss
                 Better(k) == rl[k].ens_loss < dummy_loss /\ rl[k].num_run > 1
                 kept == SelectSeq(sorted_keys, Better)
             IN  IF Len(kept) = 0
                 THEN SortedByRun({k \in DOMAIN rl : rl[k].num_run = 1})
                 ELSE kept

\* variant of KeepNbest that rounds the fraction of the keys to the nearest
\* integer
KeepNbest_Rounded(nbest, L) ==
    IF ~nbest.int
    THEN Max(1, Min(L, (2 * L * nbest.v + FloatDen) \div (2 * FloatDen)))
    ELSE Min(nbest.v, L)

\* lines 1074-1087: keep_nbest from ensemble_nbest and the number of keys
KeepNbest(nbest, L) ==
    IF ~nbest.int
    THEN Max(1, Min(L, (L * nbest.v) \div FloatDen))
    ELSE Min(nbest.v, L)

\* sorted(consumption): the [ens_loss, disc_space_cost_mb] pairs ascending
SortedConsumption(rl) ==
    LET C == {k \in DOMAIN rl : rl[k].disc_space_cost_mb # None}
        key == [k \in C |-> <<rl[k].ens_loss * (MaxCost + 1) + rl[k].disc_space_cost_mb, k>>]
        order == SortByKey(C, key)
    IN  [i \in 1..Len(order) |-> rl[order[i]].disc_space_cost_mb]

\* np.argmax(sorted_cum_consumption > max_models_on_disc): 0-based index of
\* the first entry of the cumulative sum (plus extra) above the budget
ArgmaxAbove(costs, extra, budget) ==
    LET Cum(i) == SumSeq(SubSeq(costs, 1, i)) + extra
        hits == {i \in 1..Len(costs) : Cum(i) > budget}
    IN  IF hits = {} THEN 0
        ELSE (CHOOSE i \in hits : \A j \in hits : i <= j) - 1

\* lines 1091-1127: self.max_resident_models; exc when max() of an empty list
MaxResidentModels(b) ==
    LET rl == b.read_losses
        mmod == b.max_models_on_disc
        costs == SortedConsumption(rl)
        max_consumption == CHOOSE c \in SeqToSet(costs) : \A d \in SeqToSet(costs) : c >= d
    IN  IF mmod.kind = "none" THEN [exc |-> FALSE, v |-> b.max_resident_models]
        ELSE IF mmod.kind = "int" THEN [exc |-> FALSE, v |-> mmod.v]
        ELSE IF Len(costs) = 0 THEN [exc |-> TRUE, v |-> None]
        ELSE IF SumSeq(costs) + max_consumption > mmod.v
        THEN [exc |-> FALSE, v |-> Max(1, ArgmaxAbove(costs, max_consumption, mmod.v))]
        ELSE [exc |-> FALSE, v |-> None]

\* variant of ClampToResident that leaves keep_nbest as it is
ClampToResident_Off(keep_nbest, max_resident_models) == keep_nbest

\* lines 1129-1135: the clamp of keep_nbest to max_resident_models
ClampToResident(keep_nbest, max_resident_models) ==
    IF max_resident_models # None /\ keep_nbest > max_resident_models
    THEN max_resident_models
    ELSE keep_nbest

\* worst_loss -= (worst_loss - best_loss) * threshold, in IEEE arithmetic:
\* inf - inf is nan; v2 is ThrDen times the cutoff
RangeCutoff(worst_loss, best_loss, thr) ==
    IF worst_loss = Inf THEN [nan |-> TRUE, inf |-> FALSE, v2 |-> 0]
    ELSE IF best_loss = Inf THEN [nan |-> FALSE, inf |-> TRUE, v2 |-> 0]
    ELSE [nan |-> FALSE, inf |-> FALSE,
          v2 |-> ThrDen * worst_loss - (worst_loss - best_loss) * thr]

LossGt(loss, cut) ==
    /\ ~cut.nan
    /\ ~cut.inf
    /\ (loss = Inf \/ ThrDen * loss > cut.v2)

LossGe(loss, cut) ==
    /\ ~cut.nan
    /\ IF cut.inf THEN loss = Inf ELSE (loss = Inf \/ ThrDen * loss >= cut.v2)

\* lines 1138-1154: performance range pruning of keep_nbest; the caller has
\* checked that sorted_keys is not empty and that a dummy exists
RangePrune(rl, sorted_keys, keep_nbest, dummy_loss, thr) ==
    LET cut == RangeCutoff(dummy_loss, rl[sorted_keys[1]].ens_loss, thr)
        last == IF keep_nbest = 0 THEN Len(sorted_keys) ELSE keep_nbest
        hits == {i \in 0..(keep_nbest - 1) : LossGe(rl[sorted_keys[i + 1]].ens_loss, cut)}
    IN  IF LossGt(rl[sorted_keys[last]].ens_loss, cut) /\ hits # {}
        THEN Max(1, CHOOSE i \in hits : \A j \in hits : i <= j)
        ELSE keep_nbest

\* lines 1160-1173: evict the arrays of the keys after the kept prefix
DropLosers(b, losers) ==
    [b EXCEPT
       !.read_preds = [k \in DOMAIN @ |-> IF k \in losers THEN NewPredRecord ELSE @[k]],
       !.read_losses = [k \in DOMAIN @ |->
                          IF k \in losers /\ @[k].loaded = LOADED
                          THEN [@[k] EXCEPT !.loaded = DROPPED] ELSE @[k]]]

\* the condition of lines 1177-1182
NeedsLoad(b, k) ==
    /\ (k \notin DOMAIN b.read_preds \/ b.read_preds[k].ens = NoArray)
    /\ b.read_losses[k].loaded # DELETED

\* _read_np_fn(k) raises when the file is gone or cannot be decoded, and
\* self.read_preds[k][Y_ENSEMBLE] = ... raises KeyError without an entry
LoadRaises(b, f, k) ==
    NeedsLoad(b, k) /\ (~f[k].exists \/ f[k].content = Corrupt \/ k \notin DOMAIN b.read_preds)

\* lines 1176-1186: load the arrays of the kept prefix
LoadWinners(b, f, winners) ==
    [b EXCEPT
       !.read_preds = [k \in DOMAIN @ |->
                         IF k \in winners /\ NeedsLoad(b, k)
                         THEN [@[k] EXCEPT !.ens = ArrayOf(k, f[k].content)] ELSE @[k]],
       !.read_losses = [k \in DOMAIN @ |->
                          IF k \in winners /\ NeedsLoad(b, k)
                          THEN [@[k] EXCEPT !.loaded = LOADED] ELSE @[k]]]

\* get_n_best_preds on builder b with the files f: the builder afterwards,
\* the returned keys, and exc when an exception leaves the method
get_n_best_preds(b, f) ==
    LET rl == b.read_losses
        all_keys == _get_list_of_sorted_preds(rl)
        dl == dummy_losses(rl, all_keys)
        sorted_keys == BaselineFilter(rl, all_keys)
        keep0 == KeepNbest(b.ensemble_nbest, Len(sorted_keys))
        mrm == MaxResidentModels(b)
        keep1 == ClampToResident(keep0, mrm.v)
        thr == b.performance_range_threshold
        thr_exc == thr > 0 /\ (Len(sorted_keys) = 0 \/ Len(dl) = 0)
        keep2 == IF thr > 0 /\ ~thr_exc
                 THEN RangePrune(rl, sorted_keys, keep1, rl[dl[1]].ens_loss, thr)
                 ELSE keep1
        winners == Prefix(sorted_keys, keep2)
        losers == SeqToSet(sorted_keys) \ SeqToSet(winners)
        b1 == [b EXCEPT !.max_resident_models = mrm.v]
        b2 == DropLosers(b1, losers)
        load_exc == \E k \in SeqToSet(winners) : LoadRaises(b2, f, k)
    IN  IF mrm.exc \/ thr_exc \/ load_exc
        THEN [exc |-> TRUE, b |-> b, ret |-> <<>>]
        ELSE [exc |-> FALSE, b |-> LoadWinners(b2, f, SeqToSet(winners)), ret |-> winners]

\* ---------------------------------------------------- get_test_preds
\* one pass of the for loop of get_test_preds: TRUE when k is appended to
\* success_keys_test (a test file exists; KeyError on a missing read_preds
\* entry is caught by the except clause)
TestReadOk(b, f, k) ==
    /\ f[k].exists /\ f[k].test
    /\ k \in DOMAIN b.read_preds

get_test_preds(b, f, selected_keys) ==
    LET ok == {k \in SeqToSet(selected_keys) : TestReadOk(b, f, k)}
        Fresh(k) == b.read_losses[k].mtime_test = f[k].mtime /\ b.read_preds[k].test # NoArray
        OkKey(k) == k \in ok
    IN  [b |-> [b EXCEPT
                  !.read_preds = [k \in DOMAIN @ |->
                                    IF k \in ok /\ ~Fresh(k)
                                    THEN [@[k] EXCEPT !.test = ArrayOf(k, f[k].content)]
                                    ELSE @[k]],
                  !.read_losses = [k \in DOMAIN @ |->
                                     IF k \in ok /\ ~Fresh(k)
                                     THEN [@[k] EXCEPT !.mtime_test = f[k].mtime]
                                     ELSE @[k]]],
         ret |-> SelectSeq(selected_keys, OkKey)]

\* variant of IntersectCandidates that keeps the candidates get_n_best_preds
\* returned
IntersectCandidates_KeepsAll(candidate_models, n_sel_test) ==
    LET both == SeqToSet(candidate_models) \cap SeqToSet(n_sel_test)
    IN  [candidate_models |-> candidate_models, n_sel_test |-> SortedByRun(both)]

\* lines 812-819 of main: candidate_models after the intersection with
\* n_sel_test; sorted() orders the paths as strings, which for one-digit
\* run numbers is the order of num_run
IntersectCandidates(candidate_models, n_sel_test) ==
    LET both == SeqToSet(candidate_models) \cap SeqToSet(n_sel_test)
    IN  IF both # {}
        THEN [candidate_models |-> SortedByRun(both), n_sel_test |-> SortedByRun(both)]
        ELSE [candidate_models |-> candidate_models, n_sel_test |-> <<>>]

\* ------------------------------------------------------ fit_ensemble
NoEnsemble == [some |-> FALSE, members |-> <<>>, iteration |-> 0]

\* predictions_train[i].data raises when an entry is missing or None
FitRaises(b, selected_keys) ==
    \E k \in SeqToSet(selected_keys) :
        k \notin DOMAIN b.read_preds \/ b.read_preds[k].ens = NoArray

\* current_hash: the concatenated adler32 of the candidates' arrays
CurrentHash(b, selected_keys) ==
    [i \in 1..Len(selected_keys) |-> b.read_preds[selected_keys[i]].ens]

\* variant of HashUnchanged that never finds the stored hash
HashUnchanged_Never(last_hash, current_hash) == FALSE

\* lines 1281-1289: skip when the hash is the stored one
HashUnchanged(last_hash, current_hash) == last_hash = current_hash

\* fit_ensemble without its uncaught exceptions; fit_ok is whether
\* EnsembleSelection.fit ends without ValueError or IndexError, fitted
\* whether EnsembleSelection.fit is called at all (line 1310)
fit_ensemble(b, selected_keys, iteration, fit_ok) ==
    LET current_hash == CurrentHash(b, selected_keys)
    IN  IF HashUnchanged(b.last_hash, current_hash)
        THEN [b |-> b, fitted |-> FALSE, ensemble |-> NoEnsemble]
        ELSE [b |-> [b EXCEPT !.last_hash = current_hash],
              fitted |-> TRUE,
              ensemble |-> IF fit_ok
                           THEN [some |-> TRUE, members |-> selected_keys,
                                 iteration |-> iteration]
                           ELSE NoEnsemble]

\* --------------------------------------------- _delete_excess_models
\* variant of ExcessModels without the num_run == 1 exemption
ExcessModels_WithBaseline(b) ==
    LET sorted_keys == _get_list_of_sorted_preds(b.read_losses)
        candidates == SeqToSet(Prefix(sorted_keys, b.max_resident_models))
    IN  IF b.max_resident_models = None THEN {}
        ELSE IF Len(sorted_keys) <= b.max_resident_models THEN {}
        ELSE {k \in b.y_ens_files :
                /\ k \notin candidates
                /\ k \notin b.has_been_candidate}

\* the paths the for loop of _delete_excess_models tries to remove
ExcessModels(b) ==
    LET sorted_keys == _get_list_of_sorted_preds(b.read_losses)
        candidates == SeqToSet(Prefix(sorted_keys, b.max_resident_models))
    IN  IF b.max_resident_models = None THEN {}
        ELSE IF Len(sorted_keys) <= b.max_resident_models THEN {}
        ELSE {k \in b.y_ens_files :
                /\ k \notin candidates
                /\ k \notin b.has_been_candidate
                /\ k # 1}

\* variant of MarkDeleted that keeps the loss of the removed artifact
MarkDeleted_KeepLoss(r) ==
    [r EXCEPT !.disc_space_cost_mb = None, !.loaded = DELETED]

\* lines 1516-1518: the record of a removed artifact
MarkDeleted(r) ==
    [r EXCEPT !.disc_space_cost_mb = None, !.loaded = DELETED, !.ens_loss = Inf]

\* _delete_excess_models where os.rename/shutil.rmtree fail for the paths in
\* failed; the read_losses update of a path without a record raises KeyError
\* after the directory is gone, which the except clause swallows
DeleteRecords(b, failed) ==
    [b EXCEPT !.read_losses = [k \in DOMAIN @ |->
                                 IF k \in ExcessModels(b) \ failed
                                 THEN MarkDeleted(@[k]) ELSE @[k]]]

DeleteFiles(b, f, failed) ==
    [k \in Paths |-> IF k \in ExcessModels(b) \ failed THEN Tombstone ELSE f[k]]

\* ------------------------------------------- EnsembleBuilder.__init__
\* lines 478-485: the ValueError of the constructor
ConstructorRaises(ensemble_nbest) ==
    \/ ensemble_nbest.int /\ ensemble_nbest.v < 1
    \/ ~ensemble_nbest.int /\ (ensemble_nbest.v < 0 \/ ensemble_nbest.v > FloatDen)

NullBuilder ==
    [ensemble_nbest |-> IntN(0), read_at_most |-> 0,
     max_models_on_disc |-> [kind |-> "none", v |-> 0],
     performance_range_threshold |-> 0, keep_all |-> FALSE,
     read_losses |-> EmptyDict, read_preds |-> EmptyDict, last_hash |-> NoHash,
     max_resident_models |-> None, has_been_candidate |-> {},
     ensemble_history |-> <<>>, y_ens_files |-> {}, y_true_ensemble |-> FALSE]

\* the attributes after __init__: both caches are read back from their
\* pickles when the file exists and can be loaded (lines 554-585)
NewBuilder(args, lp, pp) ==
    [NullBuilder EXCEPT
       !.ensemble_nbest = args.ensemble_nbest,
       !.read_at_most = args.read_at_most,
       !.max_models_on_disc = args.max_models_on_disc,
       !.performance_range_threshold = args.performance_range_threshold,
       !.keep_all = args.keep_all,
       !.read_preds = IF pp.state = "ok" THEN pp.read_preds ELSE EmptyDict,
       !.last_hash = IF pp.state = "ok" THEN pp.last_hash ELSE NoHash,
       !.read_losses = IF lp.state = "ok" THEN lp.read_losses ELSE EmptyDict]

\* ------------------------------------------------------------ values
NoResult == [some |-> FALSE, history |-> <<>>, ensemble_nbest |-> IntN(0)]

Result(h, n) == [some |-> TRUE, history |-> h, ensemble_nbest |-> n]

NullMp ==
    [pc |-> "none", self |-> NullBuilder, iteration |-> 0, candidate_models |-> <<>>,
     n_sel_test |-> <<>>, ensemble |-> NoEnsemble, saved |-> NoEnsemble,
     selected |-> <<>>, deleted |-> {}, reclaimed |-> FALSE, fitted |-> FALSE]

MissingLossPkl == [state |-> "missing", read_losses |-> EmptyDict]
MissingPredsPkl == [state |-> "missing", read_preds |-> EmptyDict, last_hash |-> NoHash]

\* ------------------------------------------------------- Coordinator
\* time.time() - self.start_time for a clock value, start_time being 0
Seconds(t) == t * TickSeconds

\* variant of Terminated without the test of max_iterations
Terminated_TimeOnly(elapsed_time, iteration) ==
    cfg.time_left_for_ensembles < elapsed_time

\* lines 184-198: the termination tests of build_ensemble
Terminated(elapsed_time, iteration) ==
    \/ cfg.time_left_for_ensembles < elapsed_time
    \/ (cfg.max_iterations # None /\ cfg.max_iterations <= iteration)

\* future.done()
Done(fut) == fut.status \in {"finished", "error"}

\* variant of MaySubmit: submit whether or not a job is outstanding
MaySubmit_Always(futs) == TRUE

\* line 213: only submit new jobs if the previous ensemble job finished
MaySubmit(futs) == Len(futs) = 0

\* the keyword arguments of dask_client.submit(fit_and_return_ensemble, ...)
SubmitArgs(m) ==
    [ensemble_nbest |-> m.ensemble_nbest,
     read_at_most |-> cfg.read_at_most,
     max_models_on_disc |-> cfg.max_models_on_disc,
     performance_range_threshold |-> 0,
     keep_all |-> cfg.keep_all,
     end_at |-> Seconds(0) + cfg.time_left_for_ensembles,
     iteration |-> m.iteration]

\* a future: exit, nbest_at_exit and read_at_most_at_exit record how run
\* was left and the ensemble_nbest and read_at_most the builder had then
NewFuture(m) ==
    [args |-> SubmitArgs(m), status |-> "pending", result |-> NoResult,
     exit |-> "none", nbest_at_exit |-> IntN(0), read_at_most_at_exit |-> 0]

\* line 201: the test that guards the collection of a result
Collectable(futs) == Len(futs) # 0 /\ Done(futs[1])

\* self.futures.pop()
Popped(futs) == SubSeq(futs, 1, Len(futs) - 1)

\* variant of Adopt without the test "if result"
Adopt_Always(m, result) ==
    [m EXCEPT !.ensemble_nbest = result.ensemble_nbest,
              !.history = @ \o result.history]

\* lines 203-210: adopt ensemble_nbest and extend history with a result
Adopt(m, result) ==
    IF result.some
    THEN [m EXCEPT !.ensemble_nbest = result.ensemble_nbest,
                   !.history = @ \o result.history]
    ELSE m

\* variant of build_ensemble that counts a submission that raised
build_ensemble_CountsFailure ==
    \E t \in clock..MaxClock, submit_ok \in BOOLEAN :
        /\ UNCHANGED <<world, cfg, wpc, cur, eb, run_locals, mp, fsvars>>
        /\ IF Terminated(Seconds(t), mgr.iteration)
           THEN /\ clock' = t
                /\ outcome' = "returned"
                /\ UNCHANGED <<mgr, futures>>
           ELSE IF Collectable(futures) /\ futures[Len(futures)].status = "error"
           THEN /\ clock' = t
                /\ futures' = Popped(futures)
                /\ outcome' = "raised"
                /\ UNCHANGED mgr
           ELSE LET collect == Collectable(futures)
                    m1 == IF collect THEN Adopt(mgr, futures[Len(futures)].result) ELSE mgr
                    f1 == IF collect THEN Popped(futures) ELSE futures
                IN  /\ collect => Done(futures[Len(futures)])
                    /\ outcome' = "returned"
                    /\ IF MaySubmit(f1)
                       THEN /\ mgr.iteration < MaxIteration
                            /\ clock' = t
                            /\ futures' = IF submit_ok THEN Append(f1, NewFuture(m1)) ELSE f1
                            /\ mgr' = [m1 EXCEPT !.iteration = @ + 1]
                       ELSE /\ clock' = IF collect THEN t ELSE clock
                            /\ futures' = f1
                            /\ mgr' = m1

\* build_ensemble, called at time t; submit_ok is whether dask_client.submit
\* returns a future instead of raising.  future.result() waits for a future
\* that is not done and re-raises the exception of a failed run.  A call
\* that finds nothing to do but is not terminated leaves the clock as it
\* was: the time it read is read again by whoever reads the time next.
build_ensemble ==
    \E t \in clock..MaxClock, submit_ok \in BOOLEAN :
        /\ UNCHANGED <<world, cfg, wpc, cur, eb, run_locals, mp, fsvars>>
        /\ IF Terminated(Seconds(t), mgr.iteration)
           THEN /\ clock' = t
                /\ outcome' = "returned"
                /\ UNCHANGED <<mgr, futures>>
           ELSE IF Collectable(futures) /\ futures[Len(futures)].status = "error"
           THEN /\ clock' = t
                /\ futures' = Popped(futures)
                /\ outcome' = "raised"
                /\ UNCHANGED mgr
           ELSE LET collect == Collectable(futures)
                    m1 == IF collect THEN Adopt(mgr, futures[Len(futures)].result) ELSE mgr
                    f1 == IF collect THEN Popped(futures) ELSE futures
                IN  /\ collect => Done(futures[Len(futures)])
                    /\ outcome' = "returned"
                    /\ IF MaySubmit(f1) /\ submit_ok
                       THEN /\ mgr.iteration < MaxIteration
                            /\ clock' = t
                            /\ futures' = Append(f1, NewFuture(m1))
                            /\ mgr' = [m1 EXCEPT !.iteration = @ + 1]
                       ELSE /\ clock' = IF collect THEN t ELSE clock
                            /\ futures' = f1
                            /\ mgr' = m1

\* ------------------------------------- fit_and_return_ensemble / run
\* time_left is None until the first pass of the loop sets it (line 667)
NoLocals == [has_time_left |-> FALSE, time_left |-> 0, process_start_time |-> 0]

\* the future of the running job completes with result r; exit names the
\* way run was left
Finish(r, exit) ==
    /\ futures' = [futures EXCEPT ![cur].status = "finished", ![cur].result = r,
                                  ![cur].exit = exit,
                                  ![cur].nbest_at_exit = eb.ensemble_nbest,
                                  ![cur].read_at_most_at_exit = eb.read_at_most]
    /\ wpc' = "idle"
    /\ cur' = 0
    /\ eb' = NullBuilder
    /\ run_locals' = NoLocals
    /\ mp' = NullMp

\* a worker picks up the oldest pending future and runs
\* fit_and_return_ensemble up to the while loop of run: the constructor
\* either raises, which fails the future, or builds the EnsembleBuilder, and
\* run reads process_start_time (line 656)
WorkerStart ==
    /\ wpc = "idle"
    /\ \E i \in 1..Len(futures), t \in clock..MaxClock :
          /\ futures[i].status = "pending"
          /\ \A j \in 1..(i - 1) : futures[j].status # "pending"
          /\ IF ConstructorRaises(futures[i].args.ensemble_nbest)
             THEN /\ t = clock
                  /\ futures' = [futures EXCEPT ![i].status = "error", ![i].exit = "error"]
                  /\ UNCHANGED <<clock, wpc, cur, eb, run_locals>>
             ELSE /\ futures' = [futures EXCEPT ![i].status = "running"]
                  /\ clock' = t
                  /\ wpc' = "loop"
                  /\ cur' = i
                  /\ eb' = NewBuilder(futures[i].args, loss_pkl, preds_pkl)
                  /\ run_locals' = [NoLocals EXCEPT !.process_start_time = t]
    /\ UNCHANGED <<mgrvars, mp, fsvars>>

\* lines 659-667: time_left at the top of the loop, at time t.  The first
\* pass takes it from end_at; every later pass finds time_left set and
\* subtracts the time since process_start_time from it
NextTimeLeft(loc, end_at, t) ==
    IF loc.has_time_left
    THEN loc.time_left - (Seconds(t) - Seconds(loc.process_start_time))
    ELSE end_at - Seconds(t)

\* variant of LoopBreaks in which the loop is never left
LoopBreaks_Never(loc, end_at, t) == FALSE

\* lines 664-665 and 671-673: the loop is left when the deadline has passed
\* (tested on the first pass only) or wall_time_in_s, which is
\* int(time_left - time_buffer), is below one second
LoopBreaks(loc, end_at, t) ==
    \/ ~loc.has_time_left /\ Seconds(t) > end_at
    \/ NextTimeLeft(loc, end_at, t) - time_buffer < 1

\* the top of the while loop of run, reading the time t: either break and
\* return [], self.ensemble_nbest, None, None (line 723), or start main in
\* pynisher's subprocess, which works on a copy of the builder
RunLoop ==
    /\ wpc = "loop"
    /\ \E t \in clock..MaxClock :
          /\ clock' = t
          /\ IF LoopBreaks(run_locals, futures[cur].args.end_at, t)
             THEN Finish(Result(<<>>, eb.ensemble_nbest), "break")
             ELSE /\ wpc' = "main"
                  /\ mp' = [NullMp EXCEPT !.pc = "read", !.self = eb,
                                          !.iteration = futures[cur].args.iteration]
                  /\ run_locals' = [run_locals EXCEPT
                                      !.has_time_left = TRUE,
                                      !.time_left = NextTimeLeft(run_locals,
                                                      futures[cur].args.end_at, t)]
                  /\ UNCHANGED <<futures, cur, eb>>
    /\ UNCHANGED <<mgrvars, fsvars>>

\* variant of Degrade that returns without reducing an integer
\* ensemble_nbest above 1
Degrade_NoHalving(b) ==
    IF b.ensemble_nbest.int /\ b.ensemble_nbest.v <= 1
    THEN IF b.read_at_most = 1
         THEN [b |-> [b EXCEPT !.ensemble_nbest = IntN(0)], ret |-> FALSE]
         ELSE [b |-> [b EXCEPT !.read_at_most = 1], ret |-> FALSE]
    ELSE IF b.ensemble_nbest.int
         THEN [b |-> b, ret |-> TRUE]
         ELSE [b |-> [b EXCEPT !.ensemble_nbest = IntN(0)], ret |-> TRUE]

\* variant of Degrade that gives up ensemble_nbest before read_at_most
Degrade_NbestFirst(b) ==
    IF b.ensemble_nbest.int /\ b.ensemble_nbest.v <= 1
    THEN IF b.ensemble_nbest.v = 1
         THEN [b |-> [b EXCEPT !.ensemble_nbest = IntN(0)], ret |-> FALSE]
         ELSE [b |-> [b EXCEPT !.read_at_most = 1], ret |-> FALSE]
    ELSE IF b.ensemble_nbest.int
         THEN [b |-> [b EXCEPT !.ensemble_nbest = IntN(Max(1, @.v \div 2))], ret |-> TRUE]
         ELSE [b |-> [b EXCEPT !.ensemble_nbest = IntN(0)], ret |-> TRUE]

\* lines 694-719: self.ensemble_nbest and self.read_at_most after a
\* MemorylimitException; ret is TRUE when run returns (line 719)
Degrade(b) ==
    IF b.ensemble_nbest.int /\ b.ensemble_nbest.v <= 1
    THEN IF b.read_at_most = 1
         THEN [b |-> [b EXCEPT !.ensemble_nbest = IntN(0)], ret |-> FALSE]
         ELSE [b |-> [b EXCEPT !.read_at_most = 1], ret |-> FALSE]
    ELSE IF b.ensemble_nbest.int
         THEN [b |-> [b EXCEPT !.ensemble_nbest = IntN(Max(1, @.v \div 2))], ret |-> TRUE]
         ELSE [b |-> [b EXCEPT !.ensemble_nbest = IntN(0)], ret |-> TRUE]

\* the subprocess exceeds the memory limit somewhere in main: the parent
\* removes ensemble_read_preds.pkl and degrades the configuration
MemoryLimit ==
    /\ wpc = "main"
    /\ mp.pc \notin {"done", "crashed"}
    /\ preds_pkl' = MissingPredsPkl
    /\ LET d == Degrade(eb)
       IN  IF d.ret
           THEN Finish(Result(<<>>, d.b.ensemble_nbest), "halved")
           ELSE /\ eb' = d.b
                /\ wpc' = "loop"
                /\ mp' = NullMp
                /\ UNCHANGED <<futures, cur, run_locals>>
    /\ UNCHANGED <<clock, mgrvars, files, targets, loss_pkl>>

\* the subprocess exceeds wall_time_in_s: exit_status is not the memory
\* limit and safe_ensemble_script.result is None (line 721)
WallTimeLimit ==
    /\ wpc = "main"
    /\ mp.pc \notin {"done", "crashed"}
    /\ Finish(NoResult, "timeout")
    /\ UNCHANGED <<clock, mgrvars, fsvars>>

\* main has returned or raised in the subprocess: run returns
\* safe_ensemble_script.result, which is None after an exception (line 721)
MainExit ==
    /\ wpc = "main"
    /\ mp.pc \in {"done", "crashed"}
    /\ Finish(IF mp.pc = "done"
              THEN Result(mp.self.ensemble_history, mp.self.ensemble_nbest)
              ELSE NoResult,
              IF mp.pc = "done" THEN "result" ELSE "crash")
    /\ UNCHANGED <<clock, mgrvars, fsvars>>

\* --------------------------------------------- EnsembleBuilder.main
InMain(pc) == wpc = "main" /\ mp.pc = pc

\* lines 790-795: READ
MainRead ==
    /\ InMain("read")
    /\ LET r == compute_loss_per_model(mp.self, files, targets)
       IN  mp' = [mp EXCEPT !.self = r.b, !.pc = IF r.ok THEN "select" ELSE "done"]
    /\ UNCHANGED <<clock, mgrvars, futures, wpc, cur, eb, run_locals, fsvars>>

\* variant of MainSelect that goes on without candidates
MainSelect_GoesOn ==
    /\ InMain("select")
    /\ LET r == get_n_best_preds(mp.self, files)
       IN  mp' = IF r.exc THEN [mp EXCEPT !.pc = "crashed"]
                 ELSE [mp EXCEPT !.self = r.b, !.candidate_models = r.ret,
                                 !.selected = r.ret, !.pc = "test"]
    /\ UNCHANGED <<clock, mgrvars, futures, wpc, cur, eb, run_locals, fsvars>>

\* lines 799-804: SELECT
MainSelect ==
    /\ InMain("select")
    /\ LET r == get_n_best_preds(mp.self, files)
       IN  mp' = IF r.exc THEN [mp EXCEPT !.pc = "crashed"]
                 ELSE [mp EXCEPT !.self = r.b, !.candidate_models = r.ret,
                                 !.selected = r.ret,
                                 !.pc = IF Len(r.ret) = 0 THEN "done" ELSE "test"]
    /\ UNCHANGED <<clock, mgrvars, futures, wpc, cur, eb, run_locals, fsvars>>

\* lines 808-823: test predictions, the intersection, _has_been_candidate
MainTest ==
    /\ InMain("test")
    /\ LET r == get_test_preds(mp.self, files, mp.candidate_models)
           c == IntersectCandidates(mp.candidate_models, r.ret)
       IN  /\ mp' = [mp EXCEPT
                    !.self = [r.b EXCEPT !.has_been_candidate =
                                IF r.b.keep_all
                                THEN @ \cup SeqToSet(c.candidate_models) ELSE @],
                    !.candidate_models = c.candidate_models,
                    !.n_sel_test = c.n_sel_test,
                    !.pc = "fit"]
           /\ files' = [k \in Paths |->
                          IF r.b.keep_all /\ k \in SeqToSet(c.candidate_models)
                          THEN [files[k] EXCEPT !.was_candidate = TRUE] ELSE files[k]]
    /\ UNCHANGED <<clock, mgrvars, futures, wpc, cur, eb, run_locals,
                   targets, loss_pkl, preds_pkl>>

\* variant of MainFit that goes on to the reclamation without the save
MainFit_SkipsSave ==
    /\ InMain("fit")
    /\ IF FitRaises(mp.self, mp.candidate_models)
       THEN mp' = [mp EXCEPT !.pc = "crashed"]
       ELSE \E fit_ok \in BOOLEAN :
              LET r == fit_ensemble(mp.self, mp.candidate_models, mp.iteration, fit_ok)
              IN  mp' = [mp EXCEPT !.self = r.b, !.ensemble = r.ensemble,
                                  !.fitted = r.fitted, !.pc = "reclaim"]
    /\ UNCHANGED <<clock, mgrvars, futures, wpc, cur, eb, run_locals, fsvars>>

\* line 826: FIT
MainFit ==
    /\ InMain("fit")
    /\ IF FitRaises(mp.self, mp.candidate_models)
       THEN mp' = [mp EXCEPT !.pc = "crashed"]
       ELSE \E fit_ok \in BOOLEAN :
              LET r == fit_ensemble(mp.self, mp.candidate_models, mp.iteration, fit_ok)
              IN  mp' = [mp EXCEPT !.self = r.b, !.ensemble = r.ensemble,
                                  !.fitted = r.fitted, !.pc = "save"]
    /\ UNCHANGED <<clock, mgrvars, futures, wpc, cur, eb, run_locals, fsvars>>

\* lines 829-830: PERSIST, backend.save_ensemble(ensemble, iteration, seed)
MainSave ==
    /\ InMain("save")
    /\ mp' = [mp EXCEPT !.saved = mp.ensemble, !.pc = "reclaim"]
    /\ files' = IF mp.ensemble.some
                THEN [k \in Paths |->
                        [files[k] EXCEPT !.in_saved = k \in SeqToSet(mp.ensemble.members)]]
                ELSE files
    /\ UNCHANGED <<clock, mgrvars, futures, wpc, cur, eb, run_locals,
                   targets, loss_pkl, preds_pkl>>

\* the removal of at most one directory fails in one iteration
FailureSets(S) == {{}} \cup {{k} : k \in S}

\* lines 834-835: RECLAIM; the removal fails for the paths in failed, in
\* os.rename (the directory stays) or, for those in renamed, in
\* shutil.rmtree after the rename
MainReclaim ==
    /\ InMain("reclaim")
    /\ IF mp.self.max_resident_models # None
       THEN \E failed \in FailureSets(ExcessModels(mp.self)) :
            \E renamed \in {{}, failed} :
              /\ files' = [k \in Paths |->
                             IF k \in renamed THEN Leftover
                             ELSE DeleteFiles(mp.self, files, failed)[k]]
              /\ mp' = [mp EXCEPT !.self = DeleteRecords(mp.self, failed),
                                  !.deleted = ExcessModels(mp.self) \ failed,
                                  !.reclaimed = TRUE,
                                  !.pc = "dump_losses"]
       ELSE /\ mp' = [mp EXCEPT !.pc = "dump_losses"]
            /\ UNCHANGED files
    /\ UNCHANGED <<clock, mgrvars, futures, wpc, cur, eb, run_locals,
                   targets, loss_pkl, preds_pkl>>

\* lines 838-839: pickle.dump(self.read_losses)
MainDumpLosses ==
    /\ InMain("dump_losses")
    /\ loss_pkl' = [state |-> "ok", read_losses |-> mp.self.read_losses]
    /\ mp' = [mp EXCEPT !.pc = "trajectory"]
    /\ UNCHANGED <<clock, mgrvars, futures, wpc, cur, eb, run_locals,
                   files, targets, preds_pkl>>

\* variant of MainTrajectory that adds an entry without an ensemble
MainTrajectory_Always ==
    /\ InMain("trajectory")
    /\ mp' = [mp EXCEPT !.self.ensemble_history = Append(@, mp.iteration),
                        !.pc = "dump_preds"]
    /\ UNCHANGED <<clock, mgrvars, futures, wpc, cur, eb, run_locals, fsvars>>

\* lines 841-859: SNAPSHOT, one trajectory entry when an ensemble was built
MainTrajectory ==
    /\ InMain("trajectory")
    /\ mp' = [mp EXCEPT
                !.self.ensemble_history =
                    IF mp.ensemble.some THEN Append(@, mp.iteration) ELSE @,
                !.pc = "dump_preds"]
    /\ UNCHANGED <<clock, mgrvars, futures, wpc, cur, eb, run_locals, fsvars>>

\* lines 863-869: pickle.dump((self.read_preds, self.last_hash))
MainDumpPreds ==
    /\ InMain("dump_preds")
    /\ preds_pkl' = [state |-> "ok", read_preds |-> mp.self.read_preds,
                     last_hash |-> mp.self.last_hash]
    /\ mp' = [mp EXCEPT !.pc = "done"]
    /\ UNCHANGED <<clock, mgrvars, futures, wpc, cur, eb, run_locals,
                   files, targets, loss_pkl>>

\* ------------------------------------------------------- environment
\* the training process stores the targets of the ensemble split
WriteTargets ==
    /\ wpc = "idle"
    /\ ~targets
    /\ targets' = TRUE
    /\ UNCHANGED <<clock, mgrvars, futures, wpc, cur, eb, run_locals, mp,
                   files, loss_pkl, preds_pkl>>

\* the optimizer finishes run k and writes its prediction files; the
\* targets are stored before the first run is evaluated, and num_run counts
\* up from the baseline run
AddArtifact ==
    /\ wpc = "idle"
    /\ targets
    /\ \E k \in Paths, c \in world.contents, mb \in world.costs, tst \in world.tests :
          /\ files[k] = NoFile
          /\ k > 1 => files[k - 1] # NoFile
          /\ files' = [files EXCEPT ![k] = [exists |-> TRUE, mtime |-> 1, content |-> c,
                                            cost |-> mb, test |-> tst,
                                            was_candidate |-> FALSE, in_saved |-> FALSE]]
    /\ UNCHANGED <<clock, mgrvars, futures, wpc, cur, eb, run_locals, mp,
                   targets, loss_pkl, preds_pkl>>

\* ----------------------------------------------------- specification
ManagerConfigs ==
    [time_left_for_ensembles : {Seconds(MaxClock - 1)},
     max_iterations : {None, 2},
     ensemble_nbest : {IntN(2), FloatN(2)},
     read_at_most : {2},
     max_models_on_disc : {[kind |-> "int", v |-> 1], [kind |-> "float", v |-> 3]},
     keep_all : {FALSE}]

\* the optimizer writes decodable predictions of one size, without test data
PlainWorld == [contents |-> 1..MaxLoss, costs |-> {1}, tests |-> {FALSE}]

Init ==
    /\ clock = 0
    /\ world = PlainWorld
    /\ cfg \in ManagerConfigs
    /\ mgr = [iteration |-> 0, history |-> <<>>, ensemble_nbest |-> cfg.ensemble_nbest]
    /\ futures = <<>>
    /\ outcome = "none"
    /\ wpc = "idle"
    /\ cur = 0
    /\ eb = NullBuilder
    /\ run_locals = NoLocals
    /\ mp = NullMp
    /\ files = [k \in Paths |-> NoFile]
    /\ targets = FALSE
    /\ loss_pkl = MissingLossPkl
    /\ preds_pkl = MissingPredsPkl

Next ==
    \/ build_ensemble
    \/ WorkerStart
    \/ RunLoop
    \/ MemoryLimit
    \/ WallTimeLimit
    \/ MainExit
    \/ MainRead
    \/ MainSelect
    \/ MainTest
    \/ MainFit
    \/ MainSave
    \/ MainReclaim
    \/ MainDumpLosses
    \/ MainTrajectory
    \/ MainDumpPreds
    \/ WriteTargets
    \/ AddArtifact

Spec == Init /\ [][Next]_vars

\* ------------------------- ENSEMBLE_KEEP_ALL_CANDIDATES is set
\* The same program started with the environment variable of lines 821-823
\* set, an integer disk budget of one model and no iteration limit.
KeepConfigs ==
    [time_left_for_ensembles : {Seconds(MaxClock - 1)},
     max_iterations : {None},
     ensemble_nbest : {IntN(2), FloatN(2)},
     read_at_most : {2},
     max_models_on_disc : {[kind |-> "int", v |-> 1]},
     keep_all : {TRUE}]

InitKeep ==
    /\ clock = 0
    /\ world = PlainWorld
    /\ cfg \in KeepConfigs
    /\ mgr = [iteration |-> 0, history |-> <<>>, ensemble_nbest |-> cfg.ensemble_nbest]
    /\ futures = <<>>
    /\ outcome = "none"
    /\ wpc = "idle"
    /\ cur = 0
    /\ eb = NullBuilder
    /\ run_locals = NoLocals
    /\ mp = NullMp
    /\ files = [k \in Paths |-> NoFile]
    /\ targets = FALSE
    /\ loss_pkl = MissingLossPkl
    /\ preds_pkl = MissingPredsPkl

SpecKeep == InitKeep /\ [][Next]_vars

\* ----------------------------- a megabyte budget, files of two sizes
\* The same program started with a float max_models_on_disc while the
\* optimizer writes prediction directories of the smallest or the largest
\* size.
BudgetConfigs ==
    [time_left_for_ensembles : {Seconds(MaxClock - 1)},
     max_iterations : {None},
     ensemble_nbest : {IntN(2)},
     read_at_most : {2},
     max_models_on_disc : {[kind |-> "float", v |-> 3]},
     keep_all : {FALSE}]

CostlyWorld == [contents |-> 1..MaxLoss, costs |-> {1, MaxCost}, tests |-> {FALSE}]

InitBudget ==
    /\ clock = 0
    /\ world = CostlyWorld
    /\ cfg \in BudgetConfigs
    /\ mgr = [iteration |-> 0, history |-> <<>>, ensemble_nbest |-> cfg.ensemble_nbest]
    /\ futures = <<>>
    /\ outcome = "none"
    /\ wpc = "idle"
    /\ cur = 0
    /\ eb = NullBuilder
    /\ run_locals = NoLocals
    /\ mp = NullMp
    /\ files = [k \in Paths |-> NoFile]
    /\ targets = FALSE
    /\ loss_pkl = MissingLossPkl
    /\ preds_pkl = MissingPredsPkl

SpecBudget == InitBudget /\ [][Next]_vars

\* ----------------------------------------- run under a fair scheduler
\* The same program with read_at_most 1 and ensemble_nbest 1, one step from
\* the floor of the degradation, and a budget of MaxClock ticks.  Every
\* pass of the while loop of run after the first reads a later time than
\* the clock shows; readings stop at MaxClock, where a pass leaves the
\* loop whatever it read before.  The worker is scheduled fairly: pynisher
\* returns from every call, with a result or with an exit status.
LiveConfigs ==
    [time_left_for_ensembles : {Seconds(MaxClock)},
     max_iterations : {None},
     ensemble_nbest : {IntN(1)},
     read_at_most : {1},
     max_models_on_disc : {[kind |-> "int", v |-> 1]},
     keep_all : {FALSE}]

InitLive ==
    /\ clock = 0
    /\ world = PlainWorld
    /\ cfg \in LiveConfigs
    /\ mgr = [iteration |-> 0, history |-> <<>>, ensemble_nbest |-> cfg.ensemble_nbest]
    /\ futures = <<>>
    /\ outcome = "none"
    /\ wpc = "idle"
    /\ cur = 0
    /\ eb = NullBuilder
    /\ run_locals = NoLocals
    /\ mp = NullMp
    /\ files = [k \in Paths |-> NoFile]
    /\ targets = FALSE
    /\ loss_pkl = MissingLossPkl
    /\ preds_pkl = MissingPredsPkl

RunLoopAdvancing ==
    /\ RunLoop
    /\ run_locals.has_time_left => (clock' > clock \/ clock = MaxClock)

WorkerStep ==
    \/ RunLoopAdvancing
    \/ MemoryLimit
    \/ WallTimeLimit
    \/ MainExit
    \/ MainRead
    \/ MainSelect
    \/ MainTest
    \/ MainFit
    \/ MainSave
    \/ MainReclaim
    \/ MainDumpLosses
    \/ MainTrajectory
    \/ MainDumpPreds

NextLive ==
    \/ build_ensemble
    \/ WorkerStart
    \/ WorkerStep
    \/ WriteTargets
    \/ AddArtifact

SpecLive == InitLive /\ [][NextLive]_vars /\ WF_vars(WorkerStep)

\* --------------------------------------- no run with num_run == 1
\* The same program with a float max_models_on_disc over a runs directory
\* in which the directory of num_run 1 does not exist, so that the branch
\* of line 1050 is not taken: no record is a dummy.
InitOrphans ==
    /\ clock = 0
    /\ world = CostlyWorld
    /\ cfg \in BudgetConfigs
    /\ mgr = [iteration |-> 0, history |-> <<>>, ensemble_nbest |-> cfg.ensemble_nbest]
    /\ futures = <<>>
    /\ outcome = "none"
    /\ wpc = "idle"
    /\ cur = 0
    /\ eb = NullBuilder
    /\ run_locals = NoLocals
    /\ mp = NullMp
    /\ files = [k \in Paths |-> IF k = 1 THEN Tombstone ELSE NoFile]
    /\ targets = FALSE
    /\ loss_pkl = MissingLossPkl
    /\ preds_pkl = MissingPredsPkl

SpecOrphans == InitOrphans /\ [][Next]_vars

\* ------------------------------ prediction files that are written again
\* The same program while the optimizer may write the prediction file of a
\* finished run again: the file gets a later modification time and other
\* content, which the comparison of line 969 is there to notice.
MaxMtime == 2

RewriteArtifact ==
    /\ wpc = "idle"
    /\ \E k \in Paths, c \in world.contents :
          /\ files[k].exists
          /\ files[k].mtime < MaxMtime
          /\ c # files[k].content
          /\ files' = [files EXCEPT ![k].content = c, ![k].mtime = @ + 1]
    /\ UNCHANGED <<clock, mgrvars, futures, wpc, cur, eb, run_locals, mp,
                   targets, loss_pkl, preds_pkl>>

ChurnConfigs ==
    [time_left_for_ensembles : {Seconds(MaxClock - 1)},
     max_iterations : {2},
     ensemble_nbest : {IntN(2)},
     read_at_most : {2},
     max_models_on_disc : {[kind |-> "int", v |-> 2]},
     keep_all : {FALSE}]

InitChurn ==
    /\ clock = 0
    /\ world = PlainWorld
    /\ cfg \in ChurnConfigs
    /\ mgr = [iteration |-> 0, history |-> <<>>, ensemble_nbest |-> cfg.ensemble_nbest]
    /\ futures = <<>>
    /\ outcome = "none"
    /\ wpc = "idle"
    /\ cur = 0
    /\ eb = NullBuilder
    /\ run_locals = NoLocals
    /\ mp = NullMp
    /\ files = [k \in Paths |-> NoFile]
    /\ targets = FALSE
    /\ loss_pkl = MissingLossPkl
    /\ preds_pkl = MissingPredsPkl

NextChurn ==
    \/ Next
    \/ RewriteArtifact

SpecChurn == InitChurn /\ [][NextChurn]_vars

\* ------------------------------------ get_n_best_preds on its own
\* One EnsembleBuilder, constructed with arguments the Coordinator does not
\* pass (performance_range_threshold, no disk budget) and an ensemble_nbest
\* that may have been degraded to 0, executes READ and SELECT of main over
\* a runs directory that holds any files, corrupt ones included, each of
\* the smallest or the largest size.
SelectArgs ==
    [ensemble_nbest : {IntN(0), IntN(1), IntN(MaxRuns), FloatN(2), FloatN(FloatDen - 1),
                       FloatN(FloatDen)},
     read_at_most : {0, 1},
     max_models_on_disc : {[kind |-> "none", v |-> 0], [kind |-> "int", v |-> 0],
                           [kind |-> "int", v |-> 1], [kind |-> "int", v |-> 2],
                           [kind |-> "float", v |-> 3], [kind |-> "float", v |-> 5]},
     performance_range_threshold : 0..ThrDen,
     keep_all : {FALSE}]

AnyFiles ==
    [Paths -> {NoFile} \cup [exists : {TRUE}, mtime : {1}, content : 0..MaxLoss,
                             cost : {1, MaxCost}, test : {FALSE},
                             was_candidate : {FALSE}, in_saved : {FALSE}]]

InitSelect ==
    /\ clock = 0
    /\ world = [contents |-> 0..MaxLoss, costs |-> {1, MaxCost}, tests |-> {FALSE}]
    /\ cfg \in {c \in ManagerConfigs : c.max_iterations = None
                                        /\ c.ensemble_nbest = IntN(2)
                                        /\ c.max_models_on_disc.kind = "int"}
    /\ mgr = [iteration |-> 0, history |-> <<>>, ensemble_nbest |-> cfg.ensemble_nbest]
    /\ futures = <<>>
    /\ outcome = "none"
    /\ wpc = "main"
    /\ cur = 0
    /\ \E args \in SelectArgs :
          /\ eb = NewBuilder(args, MissingLossPkl, MissingPredsPkl)
          /\ mp = [NullMp EXCEPT !.pc = "read", !.self = eb]
    /\ run_locals = NoLocals
    /\ files \in AnyFiles
    /\ targets = TRUE
    /\ loss_pkl = MissingLossPkl
    /\ preds_pkl = MissingPredsPkl

NextSelect ==
    \/ MainRead
    \/ MainSelect

SpecSelect == InitSelect /\ [][NextSelect]_vars

\* ------------------------------------- READ, SELECT and TEST of main
\* One EnsembleBuilder without disk budget executes READ, SELECT and TEST of
\* main over a runs directory in which any run may or may not have written
\* test-split predictions next to its ensemble-split predictions.
TestArgs ==
    [ensemble_nbest : {IntN(MaxRuns)},
     read_at_most : {0},
     max_models_on_disc : {[kind |-> "none", v |-> 0]},
     performance_range_threshold : {0},
     keep_all : {FALSE}]

FilesWithTests ==
    [Paths -> {NoFile} \cup [exists : {TRUE}, mtime : {1}, content : 0..MaxLoss,
                             cost : {1}, test : BOOLEAN,
                             was_candidate : {FALSE}, in_saved : {FALSE}]]

InitTest ==
    /\ clock = 0
    /\ world = [contents |-> 0..MaxLoss, costs |-> {1}, tests |-> BOOLEAN]
    /\ cfg \in {c \in ManagerConfigs : c.max_iterations = None
                                        /\ c.ensemble_nbest = IntN(2)
                                        /\ c.max_models_on_disc.kind = "int"}
    /\ mgr = [iteration |-> 0, history |-> <<>>, ensemble_nbest |-> cfg.ensemble_nbest]
    /\ futures = <<>>
    /\ outcome = "none"
    /\ wpc = "main"
    /\ cur = 0
    /\ \E args \in TestArgs :
          /\ eb = NewBuilder(args, MissingLossPkl, MissingPredsPkl)
          /\ mp = [NullMp EXCEPT !.pc = "read", !.self = eb]
    /\ run_locals = NoLocals
    /\ files \in FilesWithTests
    /\ targets = TRUE
    /\ loss_pkl = MissingLossPkl
    /\ preds_pkl = MissingPredsPkl

NextTest ==
    \/ MainRead
    \/ MainSelect
    \/ MainTest

SpecTest == InitTest /\ [][NextTest]_vars

\* ------------------------------ _get_list_of_sorted_preds on its own
\* The list comprehension of lines 1453-1456 walks self.read_losses in the
\* order in which the records were inserted, and sorted() is a stable sort
\* of that list. One EnsembleBuilder whose records entered the cache in any
\* order sorts them, selects and computes what reclamation would remove.
RankRuns == {2, 5, 7}

\* losses in tenths
RankLosses == {3, 5}

InsertionOrders ==
    {o \in UNION {[1..n -> RankRuns] : n \in 0..Cardinality(RankRuns)} :
        \A i, j \in DOMAIN o : i # j => o[i] # o[j]}

\* [(k, v["ens_loss"], v["num_run"]) for k, v in self.read_losses.items()]
\* for a dict whose keys were inserted in the given order
ItemsOf(rl, order) ==
    [i \in 1..Len(order) |-> <<order[i], rl[order[i]].ens_loss, rl[order[i]].num_run>>]

\* variant of InsertSorted that compares the losses only
RECURSIVE InsertSorted_LossOnly(_, _)
InsertSorted_LossOnly(s, x) ==
    IF s = <<>> THEN <<x>>
    ELSE IF x[2] < s[1][2] THEN <<x>> \o s
    ELSE <<s[1]>> \o InsertSorted_LossOnly(Tail(s), x)

\* one element put into a list sorted by key=lambda x: (x[1], x[2]), behind
\* the elements whose key is not greater (sorted() is stable)
RECURSIVE InsertSorted(_, _)
InsertSorted(s, x) ==
    IF s = <<>> THEN <<x>>
    ELSE IF KeyLess(<<x[2], x[3]>>, <<s[1][2], s[1][3]>>) THEN <<x>> \o s
    ELSE <<s[1]>> \o InsertSorted(Tail(s), x)

\* list(sorted(items, key=lambda x: (x[1], x[2])))
RECURSIVE sorted_list(_)
sorted_list(items) ==
    IF items = <<>> THEN <<>>
    ELSE InsertSorted(sorted_list(SubSeq(items, 1, Len(items) - 1)), items[Len(items)])

\* list(map(lambda x: x[0], pre_sorted_keys))
KeysOf(pre_sorted_keys) == [i \in 1..Len(pre_sorted_keys) |-> pre_sorted_keys[i][1]]

RankArgs ==
    [ensemble_nbest : {IntN(1), IntN(2), IntN(3)},
     read_at_most : {0},
     max_models_on_disc : {[kind |-> "none", v |-> 0], [kind |-> "int", v |-> 1],
                           [kind |-> "int", v |-> 2]},
     performance_range_threshold : {0},
     keep_all : {FALSE}]

InitRank ==
    /\ clock = 0
    /\ world = [contents |-> RankLosses, costs |-> {1}, tests |-> {FALSE}]
    /\ cfg \in {c \in ManagerConfigs : c.max_iterations = None
                                        /\ c.ensemble_nbest = IntN(2)
                                        /\ c.max_models_on_disc.kind = "int"}
    /\ mgr = [iteration |-> 0, history |-> <<>>, ensemble_nbest |-> cfg.ensemble_nbest]
    /\ futures = <<>>
    /\ outcome = "none"
    /\ wpc = "main"
    /\ cur = 0
    /\ run_locals = NoLocals
    /\ targets = TRUE
    /\ loss_pkl = MissingLossPkl
    /\ preds_pkl = MissingPredsPkl
    /\ \E order \in InsertionOrders, loss \in [RankRuns -> RankLosses], args \in RankArgs :
          LET st == ReadLoop(files, order, 1, args.read_at_most,
                             [rl |-> EmptyDict, rp |-> EmptyDict, n |-> 0])
          IN  /\ files = [k \in RankRuns |->
                            IF k \in SeqToSet(order)
                            THEN [exists |-> TRUE, mtime |-> 1, content |-> loss[k],
                                  cost |-> 1, test |-> FALSE, was_candidate |-> FALSE, in_saved |-> FALSE]
                            ELSE NoFile]
              /\ eb = [NewBuilder(args, MissingLossPkl, MissingPredsPkl) EXCEPT
                         !.read_losses = st.rl, !.read_preds = st.rp,
                         !.y_ens_files = SeqToSet(order), !.y_true_ensemble = TRUE]
              /\ mp = [pc |-> "items", self |-> eb, items |-> ItemsOf(st.rl, order),
                       pre_sorted_keys |-> <<>>, selected |-> <<>>, deleted |-> {}]

\* lines 1451-1461: the sorted list of (key, ens_loss, num_run)
RankSort ==
    /\ wpc = "main"
    /\ mp.pc = "items"
    /\ mp' = [mp EXCEPT !.pre_sorted_keys = sorted_list(mp.items), !.pc = "select"]
    /\ UNCHANGED <<clock, mgrvars, futures, wpc, cur, eb, run_locals, fsvars>>

\* get_n_best_preds of the builder
RankSelect ==
    /\ wpc = "main"
    /\ mp.pc = "select"
    /\ LET r == get_n_best_preds(mp.self, files)
       IN  mp' = IF r.exc THEN [mp EXCEPT !.pc = "crashed"]
                 ELSE [mp EXCEPT !.self = r.b, !.selected = r.ret, !.pc = "reclaim"]
    /\ UNCHANGED <<clock, mgrvars, futures, wpc, cur, eb, run_locals, fsvars>>

\* the paths _delete_excess_models removes
RankReclaim ==
    /\ wpc = "main"
    /\ mp.pc = "reclaim"
    /\ mp' = [mp EXCEPT !.deleted = ExcessModels(mp.self), !.pc = "done"]
    /\ UNCHANGED <<clock, mgrvars, futures, wpc, cur, eb, run_locals, fsvars>>

NextRank ==
    \/ RankSort
    \/ RankSelect
    \/ RankReclaim

SpecRank == InitRank /\ [][NextRank]_vars

\* ------------------------------------------------------------ claims
\* C1: self.futures never holds more than one entry, and a build_ensemble
\* call that finds the outstanding future not done submits nothing and
\* leaves futures, history, ensemble_nbest and iteration as they were.
C1_OneRunInFlight ==
    /\ [](Len(futures) <= 1)
    /\ [][(build_ensemble /\ Len(futures) # 0 /\ ~Done(futures[1]))
            => (futures' = futures /\ mgr' = mgr)]_vars

\* a build_ensemble call has returned while the submitted job is executing
\* main in the worker
C1_Witness ==
    /\ outcome = "returned"
    /\ Len(futures) = 1
    /\ futures[1].status = "running"
    /\ wpc = "main"
    /\ mgr.iteration = 2

\* C2: in every iteration, _delete_excess_models deletes neither the
\* baseline (num_run 1) nor a candidate that get_n_best_preds returned or
\* that was handed to fit_ensemble.
C2_ReclaimSparesResidents ==
    mp.deleted \cap ({1} \cup SeqToSet(mp.selected) \cup SeqToSet(mp.candidate_models)) = {}

\* an iteration with a candidate has deleted an artifact while the baseline
\* was among the files found and not among the candidates, and is kept
C2_Witness ==
    /\ mp.reclaimed
    /\ mp.deleted # {}
    /\ Len(mp.candidate_models) > 0
    /\ 1 \in mp.self.y_ens_files
    /\ 1 \notin SeqToSet(mp.candidate_models)
    /\ files[1].exists

\* C3: whenever max_resident_models is set (integer budget, or float budget
\* that is exceeded), get_n_best_preds returns at most max_resident_models
\* candidates, for every ensemble_nbest and performance_range_threshold.
C3_ResidentBound ==
    mp.self.max_resident_models # None
        => Len(mp.selected) <= mp.self.max_resident_models

\* get_n_best_preds has returned as many candidates as a float budget
\* leaves resident, fewer than ensemble_nbest asks for, with range pruning on
C3_Witness ==
    /\ mp.pc = "test"
    /\ mp.self.max_models_on_disc.kind = "float"
    /\ mp.self.max_resident_models # None
    /\ Len(mp.selected) = mp.self.max_resident_models
    /\ mp.self.performance_range_threshold > 0
    /\ mp.self.ensemble_nbest = IntN(MaxRuns)
    /\ Len(BaselineFilter(mp.self.read_losses,
                          _get_list_of_sorted_preds(mp.self.read_losses)))
          > mp.self.max_resident_models

\* C4: no build_ensemble call propagates an error, whatever the outcome of
\* the previous run and of the submission: it always returns normally.
C4_NeverRaises == outcome # "raised"

\* C5: once the elapsed time exceeds time_left_for_ensembles or iteration
\* has reached max_iterations no step submits a run, so that at most
\* max_iterations runs are submitted (iteration counts the submissions: it
\* grows by one exactly in the steps that add a future, which carries the
\* index iteration had), and the futures list keeps the run that was
\* submitted before.
C5_TerminationPermanent ==
    /\ [](cfg.max_iterations # None => mgr.iteration <= cfg.max_iterations)
    /\ [][IF \E i \in 1..Len(futures') : futures'[i].args.iteration >= mgr.iteration
           THEN mgr'.iteration = mgr.iteration + 1
           ELSE mgr'.iteration = mgr.iteration]_vars
    /\ [][Terminated(Seconds(clock'), mgr.iteration)
            => /\ mgr' = mgr
               /\ Len(futures') = Len(futures)
               /\ \A i \in 1..Len(futures) : futures'[i].args = futures[i].args
               /\ Terminated(Seconds(clock'), mgr'.iteration)]_vars

\* build_ensemble has returned after max_iterations submissions and the
\* budget of time, and the last run submitted is writing its caches
C5_Witness ==
    /\ outcome = "returned"
    /\ cfg.max_iterations # None
    /\ mgr.iteration = cfg.max_iterations
    /\ Seconds(clock) > cfg.time_left_for_ensembles
    /\ Len(futures) = 1
    /\ futures[1].args.iteration = cfg.max_iterations - 1
    /\ InMain("dump_preds")

\* C6: the first build_ensemble call after a run has completed with a
\* result appends the trajectory of the run to history and sets
\* ensemble_nbest to the value the run returned.
C6_FirstCallMerges ==
    [][(build_ensemble /\ Len(futures) # 0 /\ futures[1].status = "finished"
                       /\ futures[1].result.some)
        => /\ mgr'.history = mgr.history \o futures[1].result.history
           /\ mgr'.ensemble_nbest = futures[1].result.ensemble_nbest]_vars

\* C7: a memory exhaustion with an integer ensemble_nbest n >= 2 ends the
\* worker's invocation with the result ([], max(1, n div 2)), and the next
\* run submitted has that ensemble_nbest: the call that collects the result
\* adopts it, ensemble_nbest changes in no other step, and every submission
\* passes the manager's ensemble_nbest.
C7_HalvingCarriesOver ==
    /\ [][(MemoryLimit /\ eb.ensemble_nbest.int /\ eb.ensemble_nbest.v >= 2)
            => /\ wpc' = "idle"
               /\ futures'[cur].status = "finished"
               /\ futures'[cur].result =
                      Result(<<>>, IntN(Max(1, eb.ensemble_nbest.v \div 2)))]_vars
    /\ [][(Len(futures) # 0 /\ Len(futures') <= 1 /\ futures' # futures
            /\ futures[1].exit = "halved" /\ futures[1].nbest_at_exit.int
            /\ futures[1].nbest_at_exit.v >= 2
            /\ (Len(futures') = 0 \/ futures'[1].status = "pending"))
            => /\ mgr'.ensemble_nbest = IntN(Max(1, futures[1].nbest_at_exit.v \div 2))
               /\ Len(futures') = 1 => futures'[1].args.ensemble_nbest = mgr'.ensemble_nbest]_vars
    /\ [][(Len(futures) = 0 /\ Len(futures') = 1)
            => /\ mgr'.ensemble_nbest = mgr.ensemble_nbest
               /\ futures'[1].args.ensemble_nbest = mgr.ensemble_nbest]_vars

\* a run submitted with ensemble_nbest 1 is pending after the run before
\* it, submitted with 2, ran out of memory
C7_Witness ==
    /\ cfg.ensemble_nbest = IntN(2)
    /\ mgr.ensemble_nbest = IntN(1)
    /\ mgr.iteration = 2
    /\ Len(futures) = 1
    /\ futures[1].status = "pending"
    /\ futures[1].args.ensemble_nbest = IntN(1)

\* C8: a memory exhaustion with an integer ensemble_nbest <= 1 sets
\* read_at_most to 1 and leaves ensemble_nbest when read_at_most is not 1,
\* and sets ensemble_nbest to 0 only when read_at_most is 1; both times run
\* goes back to the top of its loop in the same invocation, and a live
\* builder never has ensemble_nbest 0 with another read_at_most than 1.
C8_FloorOrder ==
    /\ []((wpc # "idle" /\ eb.ensemble_nbest = IntN(0)) => eb.read_at_most = 1)
    /\ [][(MemoryLimit /\ eb.ensemble_nbest.int /\ eb.ensemble_nbest.v <= 1)
            => /\ wpc' = "loop"
               /\ cur' = cur
               /\ futures' = futures
               /\ IF eb.read_at_most # 1
                  THEN /\ eb'.read_at_most = 1
                       /\ eb'.ensemble_nbest = eb.ensemble_nbest
                  ELSE /\ eb'.read_at_most = 1
                       /\ eb'.ensemble_nbest = IntN(0)]_vars

\* run is at the top of its loop after both floor steps, in a run that was
\* submitted with ensemble_nbest 1 and read_at_most 2
C8_Witness ==
    /\ wpc = "loop"
    /\ futures[cur].args.ensemble_nbest = IntN(1)
    /\ futures[cur].args.read_at_most = 2
    /\ eb.ensemble_nbest = IntN(0)
    /\ eb.read_at_most = 1

\* C9: with ensemble_nbest 0, an iteration in which max_resident_models is
\* set and more records are cached than it allows reaches RECLAIM (and
\* there deletes the excess artifacts) before main returns.
C9_ReclaimOnlyReclaims ==
    (/\ InMain("done")
     /\ mp.self.ensemble_nbest = IntN(0)
     /\ mp.self.max_resident_models # None
     /\ Cardinality(DOMAIN mp.self.read_losses) > mp.self.max_resident_models)
        => mp.reclaimed

\* C10: when the floor of the degradation has set an integer ensemble_nbest
\* to 0 and the manager has adopted it, the runs submitted with 0 are
\* constructed and run without raising.
C10_ZeroIsAccepted ==
    cfg.ensemble_nbest.int
        => \A i \in 1..Len(futures) :
              futures[i].args.ensemble_nbest = IntN(0) => futures[i].status # "error"

\* C11: once a memory exhaustion has reduced read_at_most to 1 in a run,
\* the run the manager submits after it is started with read_at_most = 1.
C11_ReadAtMostCarriesOver ==
    [][(/\ Len(futures) # 0
        /\ futures[1].status = "finished"
        /\ futures[1].args.read_at_most # 1
        /\ futures[1].read_at_most_at_exit = 1
        /\ Len(futures') = 1
        /\ futures'[1].status = "pending")
        => futures'[1].args.read_at_most = 1]_vars

\* C12: the wall-clock limit ends the run without a result and without
\* touching ensemble_nbest, read_at_most or the files, and the
\* build_ensemble call that collects such a run before termination keeps
\* history and ensemble_nbest and is left with no future or with the fresh
\* run it submitted.
C12_TimeoutAbandons ==
    /\ [][WallTimeLimit
            => /\ futures'[cur].status = "finished"
               /\ futures'[cur].result = NoResult
               /\ futures'[cur].nbest_at_exit = eb.ensemble_nbest
               /\ futures'[cur].read_at_most_at_exit = eb.read_at_most
               /\ UNCHANGED fsvars]_vars
    /\ [][(/\ build_ensemble
           /\ Len(futures) # 0
           /\ futures[1].exit = "timeout"
           /\ ~Terminated(Seconds(clock'), mgr.iteration))
            => /\ mgr'.history = mgr.history
               /\ mgr'.ensemble_nbest = mgr.ensemble_nbest
               /\ \/ futures' = <<>> /\ mgr'.iteration = mgr.iteration
                  \/ futures' = <<NewFuture(mgr)>> /\ mgr'.iteration = mgr.iteration + 1]_vars

\* a run that had saved the loss cache was stopped by the wall-clock limit,
\* and build_ensemble can still collect it and submit
C12_Witness ==
    /\ Len(futures) = 1
    /\ futures[1].status = "finished"
    /\ futures[1].exit = "timeout"
    /\ loss_pkl.state = "ok"
    /\ preds_pkl.state = "missing"
    /\ ~Terminated(Seconds(clock), mgr.iteration)
    /\ mgr.iteration < MaxIteration

\* C13: when READ fails (no targets, or no prediction file) or SELECT
\* returns no candidates, main returns at once: no ensemble is fitted or
\* saved, nothing is deleted, no file is written, no trajectory entry is
\* added, and the result is the ensemble_history and ensemble_nbest the
\* builder had when main was called.
C13_ShortCircuit ==
    /\ []((InMain("done") /\ mp.selected = <<>>)
            => /\ mp.ensemble = NoEnsemble
               /\ mp.saved = NoEnsemble
               /\ mp.deleted = {}
               /\ ~mp.reclaimed
               /\ mp.self.ensemble_history = eb.ensemble_history
               /\ mp.self.ensemble_nbest = eb.ensemble_nbest)
    /\ [][(/\ InMain("read")
           /\ wpc' = "main"
           /\ mp' # mp
           /\ (~targets \/ \A k \in Paths : ~files[k].exists))
            => (mp'.pc = "done" /\ mp'.selected = <<>> /\ UNCHANGED fsvars)]_vars
    /\ [][(/\ InMain("select")
           /\ wpc' = "main"
           /\ mp' # mp
           /\ mp'.pc # "crashed"
           /\ mp'.selected = <<>>)
            => (mp'.pc = "done" /\ UNCHANGED fsvars)]_vars
    /\ [][(MainExit /\ mp.pc = "done" /\ mp.selected = <<>>)
            => futures'[cur].result = Result(eb.ensemble_history, eb.ensemble_nbest)]_vars

\* main has returned after SELECT found no candidate among cached records,
\* with a disk budget that the cached records exceed
C13_Witness ==
    /\ InMain("done")
    /\ mp.selected = <<>>
    /\ Cardinality(DOMAIN mp.self.read_losses) >= 2
    /\ mp.self.max_resident_models = 1

\* C14: an iteration in which fit_ensemble returned None (same hash, or a
\* failed fit) has saved no ensemble and added no trajectory entry when
\* main returns, and has dumped its read_losses to the loss file.
C14_NoEnsembleStillDumps ==
    (InMain("done") /\ mp.selected # <<>> /\ ~mp.ensemble.some)
        => /\ mp.saved = NoEnsemble
           /\ mp.self.ensemble_history = eb.ensemble_history
           /\ loss_pkl = [state |-> "ok", read_losses |-> mp.self.read_losses]

\* main has returned after fit_ensemble found the hash of the run before
C14_Witness ==
    /\ InMain("done")
    /\ mp.selected # <<>>
    /\ ~mp.ensemble.some
    /\ eb.last_hash # NoHash
    /\ mp.self.last_hash = eb.last_hash

\* C15: fit_ensemble called with candidates whose arrays are those of the
\* fit whose hash the builder holds returns None and keeps the hash; after
\* every call a second call with the same candidates would return None;
\* and an iteration that found the hash unchanged ends without a saved
\* ensemble and without a new trajectory entry.
C15_RefitIdempotent ==
    /\ [][(/\ InMain("fit")
           /\ wpc' = "main"
           /\ mp' # mp
           /\ ~FitRaises(mp.self, mp.candidate_models)
           /\ mp.self.last_hash = [i \in 1..Len(mp.candidate_models) |->
                                     mp.self.read_preds[mp.candidate_models[i]].ens])
            => /\ mp'.ensemble = NoEnsemble
               /\ mp'.self.last_hash = mp.self.last_hash
               /\ mp'.pc = "save"]_vars
    /\ [][(InMain("fit") /\ mp'.pc = "save")
            => fit_ensemble(mp'.self, mp'.candidate_models, mp'.iteration, TRUE).ensemble
                  = NoEnsemble]_vars
    /\ []((InMain("done") /\ mp.selected # <<>> /\ mp.self.last_hash = eb.last_hash)
            => /\ ~mp.ensemble.some
               /\ mp.saved = NoEnsemble
               /\ mp.self.ensemble_history = eb.ensemble_history)

\* fit_ensemble has returned None for two candidates whose arrays and hash
\* were loaded from the prediction file of an earlier iteration
C15_Witness ==
    /\ InMain("save")
    /\ ~mp.ensemble.some
    /\ Len(mp.candidate_models) >= 1
    /\ preds_pkl.state = "ok"
    /\ preds_pkl.last_hash = mp.self.last_hash
    /\ eb.last_hash = mp.self.last_hash
    /\ futures[cur].args.iteration >= 1

\* C16: a builder constructed while one of the two persisted files was
\* missing holds an empty cache for it and the loaded cache of the other,
\* and no step of the main() that follows ends in an exception.
C16_CacheLossNonFatal ==
    [][(/\ wpc = "main"
        /\ wpc' = "main"
        /\ mp' # mp
        /\ \/ /\ eb.read_preds = EmptyDict
              /\ eb.last_hash = NoHash
              /\ loss_pkl.state = "ok"
              /\ eb.read_losses = loss_pkl.read_losses
           \/ /\ eb.read_losses = EmptyDict
              /\ preds_pkl.state = "ok"
              /\ eb.read_preds = preds_pkl.read_preds)
        => mp'.pc # "crashed"]_vars

\* C17: in the loss cache of the running main(), of the builder that
\* started it and of the persisted loss file, every record whose loaded
\* state is DELETED has ens_loss = Inf and its prediction file is gone.
C17_DeletedIsGone ==
    \A rl \in {mp.self.read_losses, eb.read_losses, loss_pkl.read_losses} :
        \A k \in DOMAIN rl :
            rl[k].loaded = DELETED => (rl[k].ens_loss = Inf /\ ~files[k].exists)

\* a DELETED record has been persisted and read back by a later builder
\* while other artifacts are still on disk
C17_Witness ==
    /\ wpc = "main"
    /\ \E k \in DOMAIN eb.read_losses :
          /\ eb.read_losses[k].loaded = DELETED
          /\ loss_pkl.read_losses[k].loaded = DELETED
    /\ \E k \in Paths : files[k].exists /\ k # 1

\* C18: with ENSEMBLE_KEEP_ALL_CANDIDATES set, no step removes the
\* prediction file of a path that main() has put into _has_been_candidate,
\* in this Driver invocation or in an earlier one.
C18_CandidatesRetained ==
    [][\A k \in Paths :
          (cfg.keep_all /\ files[k].exists /\ files[k].was_candidate)
              => files'[k].exists]_vars

\* C19: the sorted list holds the cached records ascending by ens_loss and,
\* among equal losses, ascending by num_run; it is the same for every order
\* in which the records may have entered the cache; get_n_best_preds returns
\* its first keep_nbest keys and _delete_excess_models removes the keys
\* behind its first max_resident_models; losses 0.5, 0.3, 0.3 of the runs
\* 5, 2, 7 with ensemble_nbest = 2 give run 2, then run 7, without run 5.
C19_RankingByLossThenRun ==
    LET pre == mp.pre_sorted_keys
        keys == KeysOf(pre)
        rl == eb.read_losses
        budget == eb.max_models_on_disc
        keep == IF budget.kind = "int"
                THEN Min(Min(eb.ensemble_nbest.v, budget.v), Len(keys))
                ELSE Min(eb.ensemble_nbest.v, Len(keys))
    IN  /\ mp.pc # "crashed"
        /\ mp.pc # "items" =>
              /\ SeqToSet(pre) = SeqToSet(mp.items)
              /\ Len(pre) = Len(mp.items)
              /\ \A i, j \in 1..Len(pre) :
                    i < j => \/ pre[i][2] < pre[j][2]
                             \/ pre[i][2] = pre[j][2] /\ pre[i][3] < pre[j][3]
              /\ \A order \in InsertionOrders :
                    SeqToSet(order) = DOMAIN rl => sorted_list(ItemsOf(rl, order)) = pre
              /\ keys = _get_list_of_sorted_preds(rl)
        /\ mp.pc \in {"reclaim", "done"} => mp.selected = Prefix(keys, keep)
        /\ mp.pc = "done" =>
              mp.deleted = IF budget.kind = "int"
                           THEN SeqToSet(keys) \ SeqToSet(Prefix(keys, budget.v))
                           ELSE {}
        /\ (/\ mp.pc = "done"
            /\ SeqToSet(mp.items) = {<<5, 5, 5>>, <<2, 3, 2>>, <<7, 3, 7>>}
            /\ eb.ensemble_nbest = IntN(2)
            /\ budget.kind = "none")
               => mp.selected = <<2, 7>>

\* the records of the runs 5, 2, 7 entered the cache in this order with
\* losses 0.5, 0.3, 0.3; ensemble_nbest = 2 has selected run 2 and run 7
C19_Witness ==
    /\ mp.pc = "done"
    /\ mp.items = << <<5, 5, 5>>, <<2, 3, 2>>, <<7, 3, 7>> >>
    /\ eb.ensemble_nbest = IntN(2)
    /\ eb.max_models_on_disc.kind = "none"
    /\ mp.selected = <<2, 7>>
    /\ 5 \notin SeqToSet(mp.selected)

\* C20: whenever the loss cache holds a record of a run other than the
\* baseline with a finite loss, a get_n_best_preds call that returns
\* returns at least one key, whatever ensemble_nbest and disk budget the
\* builder holds.
C20_SelectNonEmpty ==
    [][(/\ InMain("select")
        /\ wpc' = "main"
        /\ mp' # mp
        /\ mp'.pc # "crashed"
        /\ \E k \in DOMAIN mp.self.read_losses :
              /\ mp.self.read_losses[k].num_run # 1
              /\ mp.self.read_losses[k].ens_loss # Inf)
        => Len(mp'.selected) >= 1]_vars

\* C21: with a float max_models_on_disc, after a _delete_excess_models call
\* in which every removal succeeded the disc_space_cost_mb of the cached
\* artifacts that are still on disk sum up to at most max_models_on_disc.
C21_FloatBudgetHolds ==
    [][(/\ MainReclaim
        /\ mp.self.max_models_on_disc.kind = "float"
        /\ files' = DeleteFiles(mp.self, files, {}))
        => LET on_disk == SortedByRun({k \in DOMAIN mp'.self.read_losses : files'[k].exists})
           IN  SumSeq([i \in 1..Len(on_disk) |-> files'[on_disk[i]].cost])
                  <= mp.self.max_models_on_disc.v]_vars

\* C22: no step removes the prediction file of a model that is a member of
\* the ensemble saved last, also not in an iteration in which fit_ensemble
\* returns None and nothing is saved.
C22_SavedMembersRetained ==
    [][\A k \in Paths :
          (files[k].exists /\ files[k].in_saved) => files'[k].exists]_vars

\* C23: within one main() a prediction file is removed only by the
\* reclamation step, after fit_ensemble has returned and, when it returned
\* an ensemble, after that ensemble was saved; the loss file is written
\* only after the reclamation (when max_resident_models is set); the
\* trajectory entry is added only after the loss file holds the losses of
\* this iteration; and the prediction file with the hash is written by the
\* last step of main().
C23_StepOrder ==
    /\ [][(\E k \in Paths : files[k].exists /\ ~files'[k].exists)
            => /\ InMain("reclaim")
               /\ mp.ensemble.some => mp.saved = mp.ensemble
               /\ mp'.pc = "dump_losses"]_vars
    /\ [][(loss_pkl' # loss_pkl)
            => /\ InMain("dump_losses")
               /\ mp.self.max_resident_models # None => mp.reclaimed
               /\ mp.ensemble.some => mp.saved = mp.ensemble
               /\ mp'.pc = "trajectory"
               /\ files' = files]_vars
    /\ [][(wpc = "main" /\ wpc' = "main"
           /\ mp'.self.ensemble_history # mp.self.ensemble_history)
            => /\ InMain("trajectory")
               /\ loss_pkl = [state |-> "ok", read_losses |-> mp.self.read_losses]
               /\ mp.saved.some
               /\ mp'.pc = "dump_preds"
               /\ UNCHANGED fsvars]_vars
    /\ [][(preds_pkl' # preds_pkl /\ preds_pkl'.state = "ok")
            => /\ InMain("dump_preds")
               /\ loss_pkl = [state |-> "ok", read_losses |-> mp.self.read_losses]
               /\ mp'.pc = "done"
               /\ mp'.self = mp.self
               /\ UNCHANGED <<files, loss_pkl>>]_vars

\* one main() has saved an ensemble, removed a directory, written the loss
\* file, added its trajectory entry and written the prediction file
C23_Witness ==
    /\ InMain("done")
    /\ mp.saved.some
    /\ mp.deleted # {}
    /\ loss_pkl = [state |-> "ok", read_losses |-> mp.self.read_losses]
    /\ Len(mp.self.ensemble_history) = Len(eb.ensemble_history) + 1
    /\ preds_pkl = [state |-> "ok", read_preds |-> mp.self.read_preds,
                    last_hash |-> mp.self.last_hash]

\* C24: whenever _delete_excess_models removes the directory of a path, the
\* path has a record in read_losses, and when the method returns that
\* record has loaded = DELETED, ens_loss = Inf and disc_space_cost_mb =
\* None, also when read_at_most left files unread.
C24_RemovalsAreRecorded ==
    [][\A k \in Paths :
          (files[k].exists /\ ~files'[k].exists)
              => /\ k \in DOMAIN mp.self.read_losses
                 /\ k \in DOMAIN mp'.self.read_losses
                 /\ mp'.self.read_losses[k].loaded = DELETED
                 /\ mp'.self.read_losses[k].ens_loss = Inf
                 /\ mp'.self.read_losses[k].disc_space_cost_mb = None]_vars

\* C25: when the removal of a directory fails in _delete_excess_models the
\* record of that path is left as it was and the paths whose removal did
\* not fail are removed; and every artifact that is still on disk, at its
\* path or under the '.old' name a failed removal left, and whose record
\* is not DELETED and still excess, is among the paths the reclamation of
\* a later main() tries to remove.
C25_FailedRemovalRetried ==
    /\ [][MainReclaim
            => \A k \in ExcessModels(mp.self) :
                  /\ (k \notin mp'.deleted /\ k \in DOMAIN mp.self.read_losses)
                        => mp'.self.read_losses[k] = mp.self.read_losses[k]
                  /\ k \in mp'.deleted => ~files'[k].exists]_vars
    /\ [][(MainReclaim /\ mp.self.max_resident_models # None)
            => LET rl == mp.self.read_losses
                   sorted_keys == _get_list_of_sorted_preds(rl)
                   candidates == SeqToSet(Prefix(sorted_keys, mp.self.max_resident_models))
               IN  \A k \in DOMAIN rl :
                      (/\ files[k].exists \/ files[k] = Leftover
                       /\ rl[k].loaded # DELETED
                       /\ Len(sorted_keys) > mp.self.max_resident_models
                       /\ k \notin candidates
                       /\ k \notin mp.self.has_been_candidate
                       /\ rl[k].num_run # 1)
                          => k \in ExcessModels(mp.self)]_vars

\* C26: when read_losses holds the record of the baseline (num_run = 1), a
\* get_n_best_preds call that returns returns only keys whose loss is
\* below the loss of the baseline, and not the baseline, unless there is no
\* such key: then it returns the baseline and nothing else.
C26_BaselineFilter ==
    [][(/\ InMain("select")
        /\ wpc' = "main"
        /\ mp' # mp
        /\ mp'.pc # "crashed"
        /\ 1 \in DOMAIN mp.self.read_losses)
        => LET rl == mp.self.read_losses
               better == {k \in DOMAIN rl : /\ rl[k].num_run # 1
                                             /\ rl[k].ens_loss < rl[1].ens_loss}
           IN  IF better # {}
               THEN SeqToSet(mp'.selected) \subseteq better
               ELSE mp'.selected = <<1>>]_vars

\* C27 as stated: with L keys left after the baseline filter, keep_nbest is
\* min(ensemble_nbest, L) for an integer ensemble_nbest and
\* max(1, round(L * ensemble_nbest)) for a fraction; without a disk budget
\* and without range pruning it is the number of keys get_n_best_preds
\* returns. round() rounds halves to the even neighbour.
C27_KeepNRounds ==
    [][(/\ InMain("select")
        /\ wpc' = "main"
        /\ mp' # mp
        /\ mp'.pc # "crashed"
        /\ mp.self.max_models_on_disc.kind = "none"
        /\ mp.self.max_resident_models = None
        /\ mp.self.performance_range_threshold = 0)
        => LET rl == mp.self.read_losses
               L == Len(BaselineFilter(rl, _get_list_of_sorted_preds(rl)))
               nbest == mp.self.ensemble_nbest
               n == L * nbest.v
               q == n \div FloatDen
               r == n % FloatDen
               round == IF 2 * r < FloatDen THEN q
                        ELSE IF 2 * r > FloatDen THEN q + 1
                        ELSE IF q % 2 = 0 THEN q ELSE q + 1
           IN  Len(mp'.selected) = IF nbest.int THEN Min(nbest.v, L)
                                   ELSE Max(1, round)]_vars

\* C27, amended: keep_nbest is min(ensemble_nbest, L) for an integer
\* ensemble_nbest and max(1, min(L, int(L * ensemble_nbest))) for a
\* fraction, int() cutting the fractional part off.
C27_KeepNTruncates ==
    [][(/\ InMain("select")
        /\ wpc' = "main"
        /\ mp' # mp
        /\ mp'.pc # "crashed"
        /\ mp.self.max_models_on_disc.kind = "none"
        /\ mp.self.max_resident_models = None
        /\ mp.self.performance_range_threshold = 0)
        => LET rl == mp.self.read_losses
               L == Len(BaselineFilter(rl, _get_list_of_sorted_preds(rl)))
               nbest == mp.self.ensemble_nbest
           IN  Len(mp'.selected) = IF nbest.int THEN Min(nbest.v, L)
                                   ELSE Max(1, Min(L, (L * nbest.v) \div FloatDen))]_vars

\* get_n_best_preds has returned one of two keys for the fraction 3/4,
\* without disk budget and range pruning
C27_Witness ==
    /\ InMain("test")
    /\ mp.self.ensemble_nbest = FloatN(FloatDen - 1)
    /\ mp.self.max_models_on_disc.kind = "none"
    /\ mp.self.performance_range_threshold = 0
    /\ Len(BaselineFilter(mp.self.read_losses,
                          _get_list_of_sorted_preds(mp.self.read_losses))) = 2
    /\ Len(mp.selected) = 1

\* C28: when get_n_best_preds returns under a float budget B that the total
\* cost of the cached records plus the largest single cost exceeds,
\* max_resident_models is the length of the longest prefix of the records in
\* ranking order (ens_loss, then num_run) whose cumulative cost plus the
\* largest single cost stays within B, and at least 1; under an integer
\* budget max_resident_models is that integer.
C28_ResidentPrefix ==
    [][(/\ InMain("select")
        /\ wpc' = "main"
        /\ mp' # mp
        /\ mp'.pc # "crashed")
        => LET rl == mp.self.read_losses
               mmod == mp.self.max_models_on_disc
               HasCost(k) == rl[k].disc_space_cost_mb # None
               ranked == SelectSeq(_get_list_of_sorted_preds(rl), HasCost)
               costs == [i \in 1..Len(ranked) |-> rl[ranked[i]].disc_space_cost_mb]
               worst == CHOOSE c \in SeqToSet(costs) : \A d \in SeqToSet(costs) : c >= d
               fits == {n \in 1..Len(costs) : SumSeq(SubSeq(costs, 1, n)) + worst <= mmod.v}
               longest == CHOOSE n \in fits \cup {0} : \A m \in fits : n >= m
           IN  /\ (mmod.kind = "int") => mp'.self.max_resident_models = mmod.v
               /\ (/\ mmod.kind = "float"
                   /\ Len(costs) > 0
                   /\ SumSeq(costs) + worst > mmod.v)
                   => mp'.self.max_resident_models = Max(1, longest)]_vars

\* C29: when get_n_best_preds returns under a performance_range_threshold
\* t > 0, with cutoff = baseline loss - (baseline loss - best loss) * t,
\* every returned key other than the first has a loss strictly below the
\* cutoff.
C29_RangePruned ==
    [][(/\ InMain("select")
        /\ wpc' = "main"
        /\ mp' # mp
        /\ mp'.pc # "crashed"
        /\ mp.self.performance_range_threshold > 0)
        => LET rl == mp.self.read_losses
               all_keys == _get_list_of_sorted_preds(rl)
               dl == dummy_losses(rl, all_keys)
               sorted_keys == BaselineFilter(rl, all_keys)
               cut == RangeCutoff(rl[dl[1]].ens_loss, rl[sorted_keys[1]].ens_loss,
                                  mp.self.performance_range_threshold)
           IN  \A i \in 2..Len(mp'.selected) :
                  /\ ~cut.nan
                  /\ ~LossGe(rl[mp'.selected[i]].ens_loss, cut)]_vars

\* C30: when get_n_best_preds returns, every cached record whose key is not
\* among the returned keys, the records discarded by the baseline filter
\* included, has no ensemble-split and no test-split array and is not LOADED.
C30_OnlyWinnersResident ==
    [][(/\ InMain("select")
        /\ wpc' = "main"
        /\ mp' # mp
        /\ mp'.pc # "crashed")
        => \A k \in DOMAIN mp'.self.read_losses \ SeqToSet(mp'.selected) :
              /\ mp'.self.read_losses[k].loaded # LOADED
              /\ k \in DOMAIN mp'.self.read_preds
                  => /\ mp'.self.read_preds[k].ens = NoArray
                     /\ mp'.self.read_preds[k].test = NoArray]_vars

\* C31: when get_n_best_preds returns, every returned key has a cached
\* ensemble-split array and a record in state LOADED.
C31_WinnersLoaded ==
    [][(/\ InMain("select")
        /\ wpc' = "main"
        /\ mp' # mp
        /\ mp'.pc # "crashed")
        => \A k \in SeqToSet(mp'.selected) :
              /\ k \in DOMAIN mp'.self.read_preds
              /\ mp'.self.read_preds[k].ens # NoArray
              /\ mp'.self.read_losses[k].loaded = LOADED]_vars

\* C32: in one compute_loss_per_model call over a non-empty set of files, a
\* file that cannot be decoded gets ens_loss = infinity, every other new or
\* changed file the loop reaches before read_at_most is exhausted gets its
\* loss and modification time recorded, whether it comes before or after a
\* failing one, and the call returns True.
C32_FailureDoesNotStopBatch ==
    [][(/\ InMain("read")
        /\ wpc' = "main"
        /\ mp' # mp
        /\ targets
        /\ \E k \in Paths : files[k].exists)
        => LET rl == mp.self.read_losses
               cap == mp.self.read_at_most
               Changed(k) == k \notin DOMAIN rl \/ rl[k].mtime_ens # files[k].mtime
               Decoded(k) == files[k].exists /\ Changed(k) /\ files[k].content # Corrupt
               Reached(k) == cap = 0 \/ Cardinality({j \in 1..(k - 1) : Decoded(j)}) < cap
           IN  /\ mp'.pc = "select"
               /\ \A k \in Paths :
                     (files[k].exists /\ Changed(k) /\ Reached(k))
                     => /\ k \in DOMAIN mp'.self.read_losses
                        /\ IF files[k].content = Corrupt
                           THEN mp'.self.read_losses[k].ens_loss = Inf
                           ELSE /\ mp'.self.read_losses[k].ens_loss = files[k].content
                                /\ mp'.self.read_losses[k].mtime_ens = files[k].mtime]_vars

\* compute_loss_per_model has returned True after a file that could not be
\* decoded and a file with a larger num_run that could
C32_Witness ==
    /\ InMain("select")
    /\ \E k, j \in DOMAIN mp.self.read_losses :
          /\ k < j
          /\ files[k].exists /\ files[k].content = Corrupt
          /\ mp.self.read_losses[k].ens_loss = Inf
          /\ files[j].exists /\ files[j].content # Corrupt
          /\ mp.self.read_losses[j].ens_loss = files[j].content
          /\ mp.self.read_losses[j].mtime_ens = files[j].mtime

\* C33: one compute_loss_per_model call reads at most read_at_most
\* prediction files, failed reads counted; a file is read only if every new
\* or changed file with a smaller num_run is read in the same call; a file
\* whose modification time is the recorded one keeps its record as it is.
\* A file has been read when the call created its record or recorded its
\* new modification time.
C33_ReadAtMost ==
    [][(/\ InMain("read")
        /\ wpc' = "main"
        /\ mp' # mp
        /\ targets)
        => LET rl == mp.self.read_losses
               rl2 == mp'.self.read_losses
               cap == mp.self.read_at_most
               Changed(k) == k \notin DOMAIN rl \/ rl[k].mtime_ens # files[k].mtime
               Read(k) == /\ files[k].exists
                          /\ Changed(k)
                          /\ k \in DOMAIN rl2
                          /\ (k \notin DOMAIN rl \/ rl2[k].mtime_ens = files[k].mtime)
           IN  /\ cap > 0 => Cardinality({k \in Paths : Read(k)}) <= cap
               /\ \A k \in Paths : Read(k) =>
                     \A j \in 1..(k - 1) : (files[j].exists /\ Changed(j)) => Read(j)
               /\ \A k \in DOMAIN rl :
                     (files[k].exists /\ ~Changed(k)) => rl2[k] = rl[k]]_vars

\* C34: a fit_ensemble call whose candidate arrays have the stored hash
\* calls EnsembleSelection.fit again when the call that stored the hash
\* ended without an ensemble. No ensemble has ever been saved here (no file
\* is a member of a saved ensemble and none has been removed), so every
\* earlier fit ended without one.
C34_FailedFitRetried ==
    [][(/\ InMain("fit")
        /\ wpc' = "main"
        /\ mp' # mp
        /\ mp'.pc # "crashed"
        /\ mp.self.last_hash = CurrentHash(mp.self, mp.candidate_models)
        /\ \A k \in Paths : /\ ~files[k].in_saved
                            /\ files[k] \notin {Tombstone, Leftover})
        => mp'.fitted]_vars

\* C35: when the subprocess exceeds the memory limit while ensemble_nbest is
\* a fraction f with 0 < f <= 1, run returns f / 2 to the Coordinator, and
\* that value is a fraction a new EnsembleBuilder accepts.
C35_FractionHalved ==
    [][(/\ wpc = "main"
        /\ cur # 0
        /\ preds_pkl' = MissingPredsPkl
        /\ wpc' = "idle"
        /\ futures'[cur].exit = "halved"
        /\ ~eb.ensemble_nbest.int
        /\ eb.ensemble_nbest.v > 0
        /\ eb.ensemble_nbest.v <= FloatDen)
        => LET n == futures'[cur].result.ensemble_nbest
           IN  /\ futures'[cur].result.some
               /\ ~n.int
               /\ 2 * n.v = eb.ensemble_nbest.v
               /\ ~ConstructorRaises(n)]_vars

\* C36: a build_ensemble call whose dask_client.submit raises returns
\* without raising and leaves iteration, history and ensemble_nbest at the
\* values they had when submit was called (those of the result collected in
\* the same call, if any) and futures empty; every run that is submitted,
\* the one after a failed submission included, carries the iteration index
\* the manager had before the submission.
C36_FailedSubmitIsQuiet ==
    /\ [][(/\ build_ensemble
           /\ ~(Collectable(futures) /\ futures[Len(futures)].status = "error")
           /\ Len(futures') = 0)
           => /\ mgr' = IF Collectable(futures)
                        THEN Adopt(mgr, futures[Len(futures)].result)
                        ELSE mgr
              /\ outcome' = "returned"]_vars
    /\ [][(Len(futures') = Len(futures) + 1)
           => /\ futures'[Len(futures')].args.iteration = mgr.iteration
              /\ mgr'.iteration = mgr.iteration + 1]_vars

\* a build_ensemble call has collected the first run, found time and
\* iterations left, and returned without a new future: its submission raised
C36_Witness ==
    /\ outcome = "returned"
    /\ Len(futures) = 0
    /\ mgr.iteration = 1
    /\ ~Terminated(Seconds(clock), mgr.iteration)

\* C37: no key get_n_best_preds returns, and no candidate handed to
\* fit_ensemble, belongs to a record in state DELETED.
C37_DeletedNeverSelected ==
    /\ [][(/\ InMain("select")
           /\ wpc' = "main"
           /\ mp' # mp
           /\ mp'.pc # "crashed")
           => \A k \in SeqToSet(mp'.selected) :
                 mp'.self.read_losses[k].loaded # DELETED]_vars
    /\ [](InMain("fit")
           => \A k \in SeqToSet(mp.candidate_models) :
                 mp.self.read_losses[k].loaded # DELETED)

\* C38: every ensemble-split array handed to fit_ensemble is the decoding
\* of the file version whose loss the record holds.
C38_ArraysAreCurrent ==
    InMain("fit")
        => \A k \in SeqToSet(mp.candidate_models) :
              (k \in DOMAIN mp.self.read_preds /\ mp.self.read_preds[k].ens # NoArray)
              => mp.self.read_preds[k].ens = ArrayOf(k, mp.self.read_losses[k].ens_loss)

\* C39 as stated: the candidates handed to fit_ensemble are the keys
\* get_n_best_preds returned, in the same order, whatever test-split
\* predictions exist.
C39_CandidatesAsSelected ==
    InMain("fit") => mp.candidate_models = mp.selected

\* C39, amended: when test-split predictions can be read for at least one
\* of the keys get_n_best_preds returned, the candidates handed to
\* fit_ensemble are exactly the returned keys with test-split predictions,
\* sorted by path; when they can be read for none, the candidates are the
\* returned keys in the returned order.
C39_CandidatesIntersected ==
    InMain("fit")
        => LET T == {k \in SeqToSet(mp.selected) :
                        files[k].exists /\ files[k].test /\ k \in DOMAIN mp.self.read_preds}
           IN  /\ mp.candidate_models = IF T # {} THEN SortedByRun(T) ELSE mp.selected
               /\ mp.n_sel_test = SortedByRun(T)

\* get_n_best_preds returned two keys of which one has test-split
\* predictions, and that one alone is handed to fit_ensemble
C39_Witness ==
    /\ InMain("fit")
    /\ Len(mp.selected) = 2
    /\ Len(mp.candidate_models) = 1
    /\ files[mp.candidate_models[1]].test
    /\ \E k \in SeqToSet(mp.selected) : ~files[k].test

\* C40: every invocation of run terminates when each pass of its loop reads
\* a later time than the pass before: the worker that has entered run
\* returns to idle, also when every attempt ends in memory exhaustion at
\* the floor, and run is left in one of the ways the code provides.
C40_RunTerminates ==
    /\ (wpc # "idle") ~> (wpc = "idle")
    /\ [](\A i \in 1..Len(futures) :
             futures[i].status = "finished"
             => futures[i].exit \in {"result", "crash", "timeout", "halved", "break"})

\* run is back at the top of its loop after a second pass, which started at
\* the floor (ensemble_nbest 0, read_at_most 1) and ended in memory
\* exhaustion again
C40_Witness ==
    /\ wpc = "loop"
    /\ eb.ensemble_nbest = IntN(0)
    /\ eb.read_at_most = 1
    /\ run_locals.process_start_time = 0
    /\ run_locals.has_time_left
    /\ run_locals.time_left < cfg.time_left_for_ensembles

====
